---- MODULE Spec2Model ----
(***************************************************************************)
(* pbbt: the test harness (Control), the suite case (SuiteCase) with its   *)
(* training/reconciliation engine, and the produce-and-compare case        *)
(* (MatchCase), modelled from src/src/pbbt/ctl.py and src/src/pbbt/std.py. *)
(*                                                                         *)
(* Python's recursion (a suite runs its nested cases) is an explicit       *)
(* stack of frames; list positions are kept 0-based where the code         *)
(* computes with them (idx, next_idx), sequences are 1-based.              *)
(***************************************************************************)
EXTENDS Integers, Sequences, FiniteSets, TLC

VARIABLES
    training,       \* Control.training
    purging,        \* Control.purging
    max_errors,     \* Control.max_errors
    success_num,    \* Control.success_num
    failure_num,    \* Control.failure_num
    update_num,     \* Control.update_num
    halted,         \* Control.halted
    pc,             \* position of Control.__call__: "init", "run", "done"
    input_doc,      \* the input document at input_path
    output_path,    \* the output_path argument (NoPath: not given)
    files,          \* the output files on disk: path -> record, None if absent
    stack,          \* the active calls: Control.__call__, then the suites
    prior_output,   \* `output` of Control.__call__ (after the complement test)
    new_output,     \* `new_output` of Control.__call__
    exit_status,    \* value returned by Control.__call__ (-1: not returned)
    behaviour,      \* what each snippet does when run: key -> stdout
    selection,      \* Control.selection
    state,          \* Control.state: the conditional variables
    io,             \* what reached the user interface and the file system
    call            \* a call of a record or schema method, with its result

vars == <<training, purging, max_errors, success_num, failure_num, update_num,
          halted, pc, input_doc, output_path, files, stack, prior_output,
          new_output, exit_status, behaviour, selection, state, io, call>>

\* The arguments of Control(...) and of its call: never assigned by a run.
arguments == <<training, purging, max_errors, input_doc, output_path>>
\* The locals of Control.__call__ that outlive the root case.
results == <<prior_output, new_output, exit_status>>
\* The counters and the halted flag.
counters == <<success_num, failure_num, update_num, halted>>

----------------------------------------------------------------------------
(* Bounds of the model. *)

\* Most nested inputs of the suite under reconciliation.
MaxTests == 3
\* Most entries of a prior output list.
MaxPrior == 3
\* Most cases of a nested suite.
MaxNested == 1

----------------------------------------------------------------------------
(* Records.  An input or output record is identified by its owner (the     *)
(* case kind) and the value of its identifying field (py, sh, suite ...).  *)

\* Python's None, as a record of the shape of an output record.
None == [owner |-> "none", key |-> 0, val |-> 0, tests |-> <<>>]

NoPath == "none"

\* PythonCase.Output(py=key, stdout=val)
PyOutput(key, val) == [owner |-> "py", key |-> key, val |-> val, tests |-> <<>>]

\* SuiteCase.Output(suite=key, tests=tests)
SuiteOutput(key, tests) ==
    [owner |-> "suite", key |-> key, val |-> 0, tests |-> tests]

\* The `if` or `unless` field of an input: not given (NoCond); a variable
\* name or a list of names ([keys |-> the names]); or an expression whose
\* evaluation raises (Raises).
\* The values of `if` and `unless`: None; a variable or a list of
\* variables; the expression `not <name>`; text that is no expression.
NoCond == [kind |-> "none", keys |-> {}]
AnyOf(keys) == [kind |-> "list", keys |-> keys]
Not(name) == [kind |-> "expr", keys |-> {name}]
Invalid == [kind |-> "invalid", keys |-> {}]

\* PythonCase.Input(py=key, ignore=ignore, skip=False)
PyInput(key, ignore) ==
    [owner |-> "py", key |-> key, ignore |-> ignore,
     skip |-> FALSE, if_ |-> NoCond,
     unless |-> NoCond,
     output |-> NoPath, tests |-> <<>>]

\* The value of `set`: the name of one variable, or a dictionary.
Named(name) == [str |-> TRUE, name |-> name, variables |-> <<>>]
Dictionary(variables) == [str |-> FALSE, name |-> "", variables |-> variables]

\* SetCase.Input(set=set_, skip=False)
SetInput(set_) ==
    [owner |-> "set", key |-> -2, ignore |-> FALSE,
     skip |-> FALSE, if_ |-> NoCond,
     unless |-> NoCond,
     output |-> NoPath, tests |-> <<>>, set_ |-> set_]

\* SuiteCase.Input(suite=key, output=path, tests=tests, skip=False)
SuiteInput(key, path, tests) ==
    [owner |-> "suite", key |-> key, ignore |-> FALSE,
     skip |-> FALSE, if_ |-> NoCond,
     unless |-> NoCond,
     output |-> path, tests |-> tests]

\* IncludeCase.Input(include=key); `included` is the input record held by
\* the file the field names, kept in tests.
IncludeInput(key, included) ==
    [owner |-> "include", key |-> key, ignore |-> FALSE,
     skip |-> FALSE, if_ |-> NoCond,
     unless |-> NoCond,
     output |-> NoPath, tests |-> <<included>>]

\* IncludeCase.Output(include=key, output=output); the nested record is
\* kept in tests.
IncludeOutput(key, output) ==
    [owner |-> "include", key |-> key, val |-> 0, tests |-> <<output>>]

\* What dump() leaves in a file when handed None: a document holding null,
\* which is no test record.
NullDoc == [owner |-> "null", key |-> 0, val |-> 0, tests |-> <<>>]

\* TestRecord.__complements__ (and its overrides in SuiteCase.Input and
\* PythonCase.Input): same owner, equal identifying field.
complements(input, output) ==
    /\ input.owner = output.owner
    /\ input.key = output.key

Min(S) == CHOOSE x \in S : \A y \in S : x <= y

\* del seq[idx] with 1-based position j.
Remove(seq, j) == SubSeq(seq, 1, j - 1) \o SubSeq(seq, j + 1, Len(seq))

\* list.append in the place of list.insert.
insert_at_end(seq, idx, x) == Append(seq, x)

\* list.insert(idx, x) with 0-based idx <= len.
Insert(seq, idx, x) ==
    SubSeq(seq, 1, idx) \o <<x>> \o SubSeq(seq, idx + 1, Len(seq))

----------------------------------------------------------------------------
(* SuiteCase.complement                                                    *)

\* A case: its input, its prior output (None if unmatched) and `ref`, the
\* identity of that prior output object: the loader builds one object per
\* list entry, so the object is named by its 0-based position in
\* output.tests; -1 for None.
Case(input, output, ref) == [input |-> input, output |-> output, ref |-> ref]

\* The inner for/else of complement: 1-based position in the pool of the
\* first unclaimed output that complements the input, 0 if there is none.
FirstMatch(case_input, tests, pool) ==
    LET hits == {p \in 1..Len(pool) :
                    complements(case_input, tests[pool[p] + 1])}
    IN  IF hits = {} THEN 0 ELSE Min(hits)

\* del case_outputs[idx]: the matched output leaves the pool.
ClaimKeepsOutput(pool, p) == pool

Claim(pool, p) == Remove(pool, p)

\* The outer loop of complement.  `pool` is case_outputs: the 0-based
\* original positions of the outputs not yet claimed, in list order.
RECURSIVE complement_groups(_, _, _)
complement_groups(case_inputs, tests, pool) ==
    IF case_inputs = <<>> THEN <<>>
    ELSE LET case_input == Head(case_inputs)
             p == FirstMatch(case_input, tests, pool)
         IN  IF p = 0
             THEN <<Case(case_input, None, -1)>>
                  \o complement_groups(Tail(case_inputs), tests, pool)
             ELSE <<Case(case_input, tests[pool[p] + 1], pool[p])>>
                  \o complement_groups(Tail(case_inputs), tests,
                                       Claim(pool, p))

complement(input, output) ==
    LET tests == IF output /= None THEN output.tests ELSE <<>>
    IN  complement_groups(input.tests, tests,
                          [j \in 1..Len(tests) |-> j - 1])

----------------------------------------------------------------------------
(* SuiteCase.train: the suite output made from the nested cases' outputs.  *)

\* new_case_output_map, as a sequence parallel to `cases`: has = the case is
\* a key of the map, out = the mapped value (possibly None).
NoEntry == [has |-> FALSE, out |-> None]
Entry(out) == [has |-> TRUE, out |-> out]

\* id(case.output) in case_output_index
InIndex(tests, case) == case.ref >= 0 /\ case.ref < Len(tests)

\* The output of a case under `--purge`, outputs that did not change
\* forgotten.
purge_case_output_if_new(case, entry) ==
    IF entry.has THEN entry.out ELSE None

\* The output of a case under `--purge`: case.output, or the mapped value
\* if the case is in new_case_output_map.
purge_case_output(case, entry) ==
    IF entry.has THEN entry.out ELSE case.output

\* `--purge` with the output of a case that returned what it was given
\* left out.
RECURSIVE purge_tests_only_new(_, _)
purge_tests_only_new(cases, map) ==
    IF cases = <<>> THEN <<>>
    ELSE (IF Head(map).has /\ Head(map).out /= None
          THEN <<Head(map).out>> ELSE <<>>)
         \o purge_tests_only_new(Tail(cases), Tail(map))

\* `--purge`: the output generated from scratch.
RECURSIVE purge_tests(_, _)
purge_tests(cases, map) ==
    IF cases = <<>> THEN <<>>
    ELSE LET case == Head(cases)
             case_output == purge_case_output(case, Head(map))
         IN  (IF case_output /= None THEN <<case_output>> ELSE <<>>)
             \o purge_tests(Tail(cases), Tail(map))

\* One round of the loop with the prior output of the case looked up by
\* value, tests.index(case.output), and not by identity.
scan_case_by_equality(tests, st, case, entry) ==
    LET equal == {j \in 0..(Len(tests) - 1) : tests[j + 1] = case.output}
        idx == IF equal = {} THEN -1
               ELSE CHOOSE j \in equal : \A h \in equal : j <= h
    IN  IF entry.has
        THEN IF entry.out /= None
             THEN IF idx >= 0
                  THEN [st EXCEPT
                          !.updates = Append(@, [idx |-> idx,
                                                 out |-> entry.out]),
                          !.next_idx = IF idx >= @ THEN idx + 1 ELSE @]
                  ELSE [st EXCEPT
                          !.inserts = Append(@, [idx |-> st.next_idx,
                                                 out |-> entry.out])]
             ELSE st
        ELSE IF idx >= 0
             THEN [st EXCEPT !.next_idx = idx + 1]
             ELSE st

\* One round of the loop that collects `inserts` and `updates`.
scan_case(tests, st, case, entry) ==
    IF entry.has
    THEN IF entry.out /= None
         THEN IF InIndex(tests, case)
              THEN [st EXCEPT
                      !.updates = Append(@, [idx |-> case.ref,
                                             out |-> entry.out]),
                      !.next_idx = IF case.ref >= @ THEN case.ref + 1 ELSE @]
              ELSE [st EXCEPT
                      !.inserts = Append(@, [idx |-> st.next_idx,
                                             out |-> entry.out])]
         ELSE st
    ELSE IF InIndex(tests, case)
         THEN [st EXCEPT !.next_idx = case.ref + 1]
         ELSE st

RECURSIVE scan_cases(_, _, _, _)
scan_cases(tests, st, cases, map) ==
    IF cases = <<>> THEN st
    ELSE scan_cases(tests, scan_case(tests, st, Head(cases), Head(map)),
                    Tail(cases), Tail(map))

\* inserts.sort(key=(lambda t: t[0])): a stable sort by position.
RECURSIVE sort_inserts(_)
sort_inserts(inserts) ==
    IF inserts = <<>> THEN <<>>
    ELSE LET rest == sort_inserts(Tail(inserts))
             x == Head(inserts)
             before == {j \in 1..Len(rest) : rest[j].idx < x.idx}
             n == IF before = {} THEN 0
                  ELSE CHOOSE j \in before : \A i \in before : i <= j
         IN  SubSeq(rest, 1, n) \o <<x>> \o SubSeq(rest, n + 1, Len(rest))

\* The loop over updates with the list cut after each entry it writes.
RECURSIVE apply_updates_truncating(_, _)
apply_updates_truncating(tests, updates) ==
    IF updates = <<>> THEN tests
    ELSE apply_updates_truncating(
             SubSeq([tests EXCEPT ![Head(updates).idx + 1] =
                                     Head(updates).out],
                    1, Head(updates).idx + 1),
             Tail(updates))

\* for idx, case_output in updates: tests[idx] = case_output
RECURSIVE apply_updates(_, _)
apply_updates(tests, updates) ==
    IF updates = <<>> THEN tests
    ELSE apply_updates([tests EXCEPT ![Head(updates).idx + 1] =
                                        Head(updates).out],
                       Tail(updates))

\* The loop over reversed(inserts) with tests[idx] = case_output in place
\* of tests.insert(idx, case_output).
RECURSIVE apply_inserts_overwriting(_, _)
apply_inserts_overwriting(tests, inserts) ==
    IF inserts = <<>> THEN tests
    ELSE LET last == inserts[Len(inserts)]
         IN  apply_inserts_overwriting(
                 IF last.idx < Len(tests)
                 THEN [tests EXCEPT ![last.idx + 1] = last.out]
                 ELSE Append(tests, last.out),
                 SubSeq(inserts, 1, Len(inserts) - 1))

\* for idx, case_output in reversed(inserts): tests.insert(idx, case_output)
RECURSIVE apply_inserts(_, _)
apply_inserts(tests, inserts) ==
    IF inserts = <<>> THEN tests
    ELSE LET last == inserts[Len(inserts)]
         IN  apply_inserts(Insert(tests, last.idx, last.out),
                           SubSeq(inserts, 1, Len(inserts) - 1))

\* The `elif new_case_output_map:` branch leaving the original data as it
\* is.
update_tests_keeping_original(tests, cases, map) == tests

\* The `elif new_case_output_map:` branch: the original data updated.
update_tests(tests, cases, map) ==
    LET st == scan_cases(tests,
                         [inserts |-> <<>>, updates |-> <<>>, next_idx |-> 0],
                         cases, map)
    IN  apply_inserts(apply_updates(tests, st.updates),
                      sort_inserts(st.inserts))

\* The same with the `--purge` branch never taken.
train_tests_never_purging(output, cases, map, purge, halt) ==
    LET tests == IF output /= None THEN output.tests ELSE <<>>
    IN  IF \E k \in 1..Len(map) : map[k].has
        THEN update_tests(tests, cases, map)
        ELSE tests

\* `tests` of SuiteCase.train once the nested cases have run.
train_tests(output, cases, map, purge, halt) ==
    LET tests == IF output /= None THEN output.tests ELSE <<>>
    IN  IF purge /\ ~halt THEN purge_tests(cases, map)
        ELSE IF \E k \in 1..Len(map) : map[k].has
             THEN update_tests(tests, cases, map)
             ELSE tests

\* "Generate new output record."
suite_output(input, output, tests) ==
    IF tests = <<>> THEN None
    ELSE IF output /= None /\ tests = output.tests THEN output
    ELSE SuiteOutput(input.key, tests)

----------------------------------------------------------------------------
(* State: the conditional variables and the snapshots made of them.        *)

\* The names of the conditional variables.
Variables == {"a", "b", "__builtins__"}

\* A dictionary over these names: "absent" for a name that is no key, else
\* the truth of the value.
Dictionaries == [Variables -> {"absent", "true", "false"}]

NoVariables == [name \in Variables |-> "absent"]

\* State.__init__
State(variables) == [map |-> variables, snapshots |-> <<>>]

\* State.save
save(st) == [st EXCEPT !.snapshots = Append(@, st.map)]

\* State.restore without self.clear(): keys added since the snapshot stay.
restore_without_clear(st) ==
    LET last == st.snapshots[Len(st.snapshots)]
    IN  [map |-> [name \in Variables |->
                    IF last[name] = "absent" THEN st.map[name]
                    ELSE last[name]],
         snapshots |-> SubSeq(st.snapshots, 1, Len(st.snapshots) - 1)]

\* State.restore
restore(st) ==
    [map |-> st.snapshots[Len(st.snapshots)],
     snapshots |-> SubSeq(st.snapshots, 1, Len(st.snapshots) - 1)]

\* dict.__setitem__
setitem(st, name, value) == [st EXCEPT !.map[name] = value]

\* dict.__delitem__
delitem(st, name) == [st EXCEPT !.map[name] = "absent"]

\* dict.update
update(st, variables) ==
    [st EXCEPT !.map = [name \in Variables |->
                          IF variables[name] = "absent" THEN @[name]
                          ELSE variables[name]]]

----------------------------------------------------------------------------
(* Selection: the suites selected, relative to the current path.           *)

\* A pattern segment "*", which matches every suite identifier.
Star == -1

\* fnmatch.fnmatchcase without the wildcard.
fnmatchcase_exact(suite, pattern) == pattern = suite

\* fnmatch.fnmatchcase(suite, pattern), for patterns that are an
\* identifier or "*".
fnmatchcase(suite, pattern) == pattern = Star \/ pattern = suite

\* Selection, with `targets is None` as all = TRUE.
Selection(all, targets) ==
    [path |-> <<>>, all |-> all, targets |-> targets, saved_targets |-> <<>>]

\* Selection.__contains__
contains(sel, suite) ==
    sel.all \/ \E target \in sel.targets : fnmatchcase(suite, target[1])

\* Selection.descend
descend(sel, suite) ==
    LET targets == {Tail(target) : target \in
                      {t \in sel.targets : fnmatchcase(suite, t[1])}}
    IN  [path |-> Append(sel.path, suite),
         all |-> sel.all \/ <<>> \in targets,
         targets |-> IF sel.all \/ <<>> \in targets THEN {} ELSE targets,
         saved_targets |-> Append(sel.saved_targets,
                                  [all |-> sel.all, targets |-> sel.targets])]

\* Selection.ascend without `self.targets = self.saved_targets.pop()`.
ascend_keeping_targets(sel) ==
    [path |-> SubSeq(sel.path, 1, Len(sel.path) - 1),
     all |-> sel.all,
     targets |-> sel.targets,
     saved_targets |-> SubSeq(sel.saved_targets, 1,
                              Len(sel.saved_targets) - 1)]

\* Selection.ascend
ascend(sel) ==
    LET saved == sel.saved_targets[Len(sel.saved_targets)]
    IN  [path |-> SubSeq(sel.path, 1, Len(sel.path) - 1),
         all |-> saved.all,
         targets |-> saved.targets,
         saved_targets |-> SubSeq(sel.saved_targets, 1,
                                  Len(sel.saved_targets) - 1)]

----------------------------------------------------------------------------
(* Control: counters and the halted flag.                                  *)

\* The test of Control.failed: `self.max_errors and
\* self.failure_num >= self.max_errors`, failure_num already incremented.
reaches_max_errors_late(n) == max_errors /= 0 /\ n > max_errors

reaches_max_errors(n) == max_errors /= 0 /\ n >= max_errors

\* Control.passed counting a failure.
passed_counting_failure ==
    /\ failure_num' = failure_num + 1
    /\ UNCHANGED <<success_num, update_num, halted>>

\* Control.passed
passed ==
    /\ success_num' = success_num + 1
    /\ UNCHANGED <<failure_num, update_num, halted>>

\* Control.updated
updated ==
    /\ update_num' = update_num + 1
    /\ UNCHANGED <<success_num, failure_num, halted>>

\* Control.failed called twice for one execution of a case.
failed_twice(halt) ==
    /\ failure_num' = failure_num + 2
    /\ halted' = (halted \/ halt \/ reaches_max_errors(failure_num + 2))
    /\ UNCHANGED <<success_num, update_num>>

\* Control.failed, preceded or followed by Control.halt when `halt` is set.
failed(halt) ==
    /\ failure_num' = failure_num + 1
    /\ halted' = (halted \/ halt \/ reaches_max_errors(failure_num + 1))
    /\ UNCHANGED <<success_num, update_num>>

----------------------------------------------------------------------------
(* The call stack.                                                         *)

\* A frame of Control.__call__ ("ctl"), of SuiteCase.check/train ("suite")
\* or of IncludeCase.check/train ("include"): the locals that live across
\* the calls of the nested cases.
\* loaded: `output` was read from the suite's own file (output is not
\* self.output).  idx: 1-based position of the running case.
\* entry: the conditional variables and the selection when the call was
\* made, kept for comparison with those it leaves.
Frame(kind, input, self_output, output, loaded, cases) ==
    [kind |-> kind, input |-> input, self_output |-> self_output,
     output |-> output, loaded |-> loaded, cases |-> cases, idx |-> 1,
     new_case_output_map |-> [k \in 1..Len(cases) |-> NoEntry],
     pc |-> IF cases = <<>> THEN "finish" ELSE "loop",
     entry |-> [state |-> state, selection |-> selection]]

Top == stack[Len(stack)]
Cur == Top.cases[Top.idx]
Pop(stk) == SubSeq(stk, 1, Len(stk) - 1)

\* A case is about to be called by the frame on top.
Calling(owner) ==
    /\ pc = "run"
    /\ stack /= <<>>
    /\ Top.pc = "loop"
    /\ Cur.input.owner = owner

\* The loop test of SuiteCase.check and SuiteCase.train, skipped.
loop_ends_ignoring_halt(f, halt) == f.idx = Len(f.cases)

\* `if self.ctl.halted: break`, or the list of cases is exhausted.
loop_ends(f, halt) == halt \/ f.idx = Len(f.cases)

\* The caller's frame once the running case has returned `ret`, with
\* `halt` the value of ctl.halted at that moment: Control.__call__ keeps
\* new_output and IncludeCase.train new_case_output; SuiteCase.train
\* records a changed output in the map; both suite loops break when halted.
resume(f, ret, halt) ==
    IF f.kind /= "suite"
    THEN [f EXCEPT !.new_case_output_map = <<Entry(ret)>>, !.pc = "finish"]
    ELSE LET g == IF training /\ ret /= f.cases[f.idx].output
                  THEN [f EXCEPT !.new_case_output_map[f.idx] = Entry(ret)]
                  ELSE f
         IN  IF loop_ends(f, halt)
             THEN [g EXCEPT !.pc = "finish"]
             ELSE [g EXCEPT !.idx = f.idx + 1]

\* The stack once the call on top of `stk` has returned.
Return(stk, ret, halt) ==
    [stk EXCEPT ![Len(stk)] = resume(stk[Len(stk)], ret, halt)]

----------------------------------------------------------------------------
(* Files and the user interface.                                           *)

\* The output files a run may name.
Paths == {"root.yaml", "sub.yaml"}

\* os.path.exists(path)
exists(path) == files[path] /= None

\* load(): the loader raises "expected a test record" on a document that
\* is not a mapping.
load_raises(path) == files[path] = NullDoc

\* Control.dump_output: the file system after it.
dump_output(path, data) ==
    [files EXCEPT ![path] = IF data = None THEN NullDoc ELSE data]

\* The save/discard prompt, followed by dump_output when `write` is set.
Prompted(write, data) ==
    [io EXCEPT !.prompts = @ + 1,
               !.dumps = @ + (IF write THEN 1 ELSE 0),
               !.dumped_none = @ \/ (write /\ data = None)]

----------------------------------------------------------------------------
(* MatchCase (PythonCase).                                                 *)

\* Values a snippet may print.
Values == {1, 2}
\* behaviour[key]: Undetermined until the snippet first runs, Fails if
\* run() returns None, else the stdout it produces.
Fails == None.val
Undetermined == Fails - 1

\* A rendering that differs from the text the snippet printed.
render_altered(output) == output.val + 1

\* PythonCase.render
render(output) == output.val

\* MatchCase.sanitize without `if self.input.ignore is True`.
sanitize_nothing(input, text) == text

\* MatchCase.sanitize with `ignore` a boolean: True erases the whole text.
sanitize(input, text) == IF input.ignore THEN 0 ELSE text

\* What run() may do for the case.  Texts are opaque, only their equality
\* with the expected text matters: a snippet with no expected output prints
\* the first value.
Outcomes(case) ==
    IF behaviour[case.input.key] = Undetermined
    THEN {Fails} \cup (IF case.output = None THEN {Min(Values)} ELSE Values)
    ELSE {behaviour[case.input.key]}

\* BaseCase.skipped with `all` for `any`: a list asks whether every one of
\* its variables is true.
evaluate_every_key(condition, st) ==
    IF condition.kind = "list"
    THEN IF \A key \in condition.keys : st.map[key] = "true"
         THEN "true" ELSE "false"
    ELSE IF condition.kind = "invalid" THEN "raises"
    ELSE IF \E key \in condition.keys : st.map[key] = "absent"
    THEN "raises"
    ELSE IF \E key \in condition.keys : st.map[key] = "false"
    THEN "true" ELSE "false"

\* The value of `check` in BaseCase.skipped, or "raises" when eval raises:
\* a list asks whether any of its variables is true; `not <name>` is a
\* NameError for a variable that is not set.
evaluate(condition, st) ==
    IF condition.kind = "list"
    THEN IF \E key \in condition.keys : st.map[key] = "true"
         THEN "true" ELSE "false"
    ELSE IF condition.kind = "invalid" THEN "raises"
    ELSE IF \E key \in condition.keys : st.map[key] = "absent"
    THEN "raises"
    ELSE IF \E key \in condition.keys : st.map[key] = "false"
    THEN "true" ELSE "false"

\* eval(condition, self.state): the dictionary handed to eval as globals
\* gains `__builtins__` once the expression is compiled.
evaluated(condition, st) ==
    IF condition.kind = "expr"
    THEN [st EXCEPT !.map["__builtins__"] = "true"]
    ELSE st

\* `unless` is reached: `skip` is false and `if` is None or satisfied.
reaches_unless(input) ==
    /\ ~input.skip
    /\ input.if_.kind /= "none" => evaluate(input.if_, state) = "true"

\* BaseCase.skipped reaches a condition whose evaluation raises: it halts
\* the run and returns True.
skip_raises(input) ==
    /\ ~input.skip
    /\ \/ /\ input.if_.kind /= "none"
          /\ evaluate(input.if_, state) = "raises"
       \/ /\ reaches_unless(input)
          /\ input.unless.kind /= "none"
          /\ evaluate(input.unless, evaluated(input.if_, state)) = "raises"

\* BaseCase.skipped with the tests of `if` and `unless` left out.
skipped_by_flag_only(input) == input.skip \/ skip_raises(input)

\* BaseCase.skipped
skipped(input) ==
    \/ input.skip
    \/ skip_raises(input)
    \/ /\ input.if_.kind /= "none"
       /\ evaluate(input.if_, state) = "false"
    \/ /\ reaches_unless(input)
       /\ input.unless.kind /= "none"
       /\ evaluate(input.unless, evaluated(input.if_, state)) = "true"

\* The conditional variables after BaseCase.skipped.
after_skipped(input, st) ==
    IF input.skip THEN st
    ELSE IF reaches_unless(input)
    THEN evaluated(input.unless, evaluated(input.if_, st))
    ELSE evaluated(input.if_, st)

\* The user interface after BaseCase.skipped.
Skipped(input) ==
    [io EXCEPT !.halts = @ + (IF skip_raises(input) THEN 1 ELSE 0)]

\* BaseCase.__call__ of a case that is no suite, its preconditions not
\* satisfied: the expected output is returned as it is.
BaseCase_skipped ==
    /\ pc = "run"
    /\ stack /= <<>>
    /\ Top.pc = "loop"
    /\ Cur.input.owner /= "suite"
    /\ skipped(Cur.input)
    /\ halted' = (halted \/ skip_raises(Cur.input))
    /\ io' = Skipped(Cur.input)
    /\ state' = after_skipped(Cur.input, state)
    /\ stack' = Return(stack, Cur.output, halted')
    /\ UNCHANGED <<arguments, call, results, success_num, failure_num,
                   update_num, pc, files, behaviour, selection>>

\* start() and run() have been called; Control.halt too when `halt` is set.
Ran(halt) ==
    [io EXCEPT !.starts = @ + 1, !.runs = @ + 1,
               !.halts = @ + (IF halt THEN 1 ELSE 0)]

\* MatchCase.check
MatchCase_check ==
    /\ Calling("py")
    /\ ~skipped(Cur.input)
    /\ ~training
    /\ IF Cur.output = None
       THEN /\ failed(FALSE)
            /\ io' = [io EXCEPT !.starts = @ + 1]
            /\ UNCHANGED behaviour
       ELSE \E r \in Outcomes(Cur) :
              /\ behaviour' = [behaviour EXCEPT ![Cur.input.key] = r]
              /\ io' = Ran(FALSE)
              /\ IF r = Fails
                 THEN failed(FALSE)
                 ELSE IF sanitize(Cur.input, render(Cur.output))
                            /= sanitize(Cur.input, r)
                      THEN failed(FALSE)
                      ELSE passed
    /\ stack' = Return(stack, None, halted')
    /\ state' = after_skipped(Cur.input, state)
    /\ UNCHANGED <<arguments, call, results, pc, files, selection>>

\* MatchCase.train; reply is the operator's answer to the prompt, if any.
MatchCase_train ==
    /\ Calling("py")
    /\ ~skipped(Cur.input)
    /\ training
    /\ \E r \in Outcomes(Cur) :
         /\ behaviour' = [behaviour EXCEPT ![Cur.input.key] = r]
         /\ IF r = Fails
            THEN \E reply \in {"", "c"} :
                   /\ failed(reply = "")
                   /\ io' = Ran(reply = "")
                   /\ stack' = Return(stack, Cur.output, halted')
            ELSE IF \/ Cur.output = None
                    \/ sanitize(Cur.input, render(Cur.output))
                         /= sanitize(Cur.input, r)
                 THEN \E reply \in {"", "s", "h"} :
                        IF reply = ""
                        THEN /\ updated
                             /\ io' = Ran(FALSE)
                             /\ stack' = Return(stack,
                                                PyOutput(Cur.input.key, r),
                                                halted')
                        ELSE /\ failed(reply = "h")
                             /\ io' = Ran(reply = "h")
                             /\ stack' = Return(stack, Cur.output, halted')
                 ELSE /\ passed
                      /\ io' = Ran(FALSE)
                      /\ stack' = Return(stack, Cur.output, halted')
    /\ state' = after_skipped(Cur.input, state)
    /\ UNCHANGED <<arguments, call, results, pc, files, selection>>

----------------------------------------------------------------------------
(* SetCase.                                                                *)

\* SetCase.check, which is SetCase.train too: a name is set to True, a
\* dictionary updates the variables.  Nothing is returned.
SetCase_check ==
    /\ Calling("set")
    /\ ~skipped(Cur.input)
    /\ LET st == after_skipped(Cur.input, state)
           set_ == Cur.input.set_
       IN  state' = IF set_.str THEN setitem(st, set_.name, "true")
                    ELSE update(st, set_.variables)
    /\ io' = [io EXCEPT !.starts = @ + 1]
    /\ stack' = Return(stack, None, halted)
    /\ UNCHANGED <<arguments, call, results, counters, pc, files, behaviour,
                   selection>>

----------------------------------------------------------------------------
(* SuiteCase.                                                              *)

\* The selection once an exception has left every suite: each `finally`
\* has ascended.
RECURSIVE unwind(_)
unwind(sel) == IF sel.saved_targets = <<>> THEN sel ELSE unwind(ascend(sel))

\* The conditional variables once an exception has left every suite: each
\* `finally` has restored.
RECURSIVE unwind_state(_)
unwind_state(st) ==
    IF st.snapshots = <<>> THEN st ELSE unwind_state(restore(st))

\* SuiteCase.__call__ down to the loop over the nested cases: the selection
\* test, descend(), skipped(), start(), load() and complement().  A suite
\* that is not selected, or is skipped, returns its expected output; a
\* suite file that holds no record makes load() raise.
SuiteCase_call ==
    /\ Calling("suite")
    /\ LET input == Cur.input
           path == input.output
           on_disk == path /= NoPath /\ exists(path)
           from_file == on_disk /\ ~load_raises(path)
                                /\ complements(input, files[path])
           output == IF from_file THEN files[path] ELSE Cur.output
       IN  IF ~contains(selection, input.key)
           THEN /\ stack' = Return(stack, Cur.output, halted)
                /\ UNCHANGED <<pc, selection, state, io, halted>>
           ELSE IF skipped(input)
           THEN /\ halted' = (halted \/ skip_raises(input))
                /\ io' = Skipped(input)
                /\ stack' = Return(stack, Cur.output, halted')
                /\ selection' = ascend(descend(selection, input.key))
                /\ state' = restore(after_skipped(input, save(state)))
                /\ pc' = pc
           ELSE IF on_disk /\ load_raises(path)
           THEN /\ pc' = "raised"
                /\ stack' = <<>>
                /\ selection' = unwind(descend(selection, input.key))
                /\ state' = unwind_state(after_skipped(input, save(state)))
                /\ io' = [io EXCEPT !.starts = @ + 1]
                /\ UNCHANGED halted
           ELSE /\ pc' = pc
                /\ stack' = Append(stack,
                                   Frame("suite", input, Cur.output, output,
                                         from_file, complement(input, output)))
                /\ selection' = descend(selection, input.key)
                /\ state' = after_skipped(input, save(state))
                /\ io' = [io EXCEPT !.starts = @ + 1]
                /\ UNCHANGED halted
    /\ UNCHANGED <<arguments, call, results, success_num, failure_num,
                   update_num, files, behaviour>>

\* The cases run by the frame on top have returned.
Returned(kind) ==
    /\ pc = "run"
    /\ stack /= <<>>
    /\ Top.kind = kind
    /\ Top.pc = "finish"

\* The loop of the suite on top is over.
Finishing == Returned("suite")

\* SuiteCase.check, after its loop: returns None.
SuiteCase_check ==
    /\ Finishing
    /\ ~training
    /\ stack' = Return(Pop(stack), None, halted)
    /\ selection' = ascend(selection)
    /\ state' = restore(state)
    /\ UNCHANGED <<arguments, call, results, counters, pc, files, behaviour,
                   io>>

\* SuiteCase.train, after its loop: the suite output is generated and,
\* for a suite with its own output file, saved or discarded.
SuiteCase_train ==
    /\ Finishing
    /\ training
    /\ LET f == Top
           path == f.input.output
           tests == train_tests(f.output, f.cases, f.new_case_output_map,
                                purging, halted)
           out == suite_output(f.input, f.output, tests)
       IN  IF path = NoPath
           THEN /\ stack' = Return(Pop(stack), out, halted)
                /\ UNCHANGED <<files, io>>
           ELSE IF ~f.loaded \/ f.output /= out
           THEN \E reply \in {"", "d"} :
                  IF reply = "d"
                  THEN /\ stack' = Return(Pop(stack), f.self_output, halted)
                       /\ io' = Prompted(FALSE, out)
                       /\ UNCHANGED files
                  ELSE /\ stack' = Return(Pop(stack), None, halted)
                       /\ io' = Prompted(TRUE, out)
                       /\ files' = dump_output(path, out)
           ELSE /\ stack' = Return(Pop(stack), None, halted)
                /\ UNCHANGED <<files, io>>
    /\ selection' = ascend(selection)
    /\ state' = restore(state)
    /\ UNCHANGED <<arguments, call, results, counters, pc, behaviour>>

----------------------------------------------------------------------------
(* IncludeCase.                                                            *)

\* IncludeCase.load: the included case and its expected output.
include_load(input, output) ==
    LET included_input == input.tests[1]
        included_output ==
            IF output /= None /\ complements(included_input, output.tests[1])
            THEN output.tests[1] ELSE None
    IN  Case(included_input, included_output, -1)

\* BaseCase.__call__ of an include that is not skipped, down to
\* ctl.run(case); start() shows no header.
IncludeCase_call ==
    /\ Calling("include")
    /\ ~skipped(Cur.input)
    /\ stack' = Append(stack,
                       Frame("include", Cur.input, Cur.output, Cur.output,
                             FALSE, <<include_load(Cur.input, Cur.output)>>))
    /\ state' = after_skipped(Cur.input, state)
    /\ UNCHANGED <<arguments, call, results, counters, pc, files, behaviour,
                   selection, io>>

\* IncludeCase.check, the included case having returned.
IncludeCase_check ==
    /\ Returned("include")
    /\ ~training
    /\ stack' = Return(Pop(stack), None, halted)
    /\ UNCHANGED <<arguments, call, state, results, counters, pc, files,
                   behaviour, selection, io>>

\* "Update expected output if necessary."
include_output(f, new_case_output) ==
    IF new_case_output = None THEN None
    ELSE IF new_case_output = f.cases[1].output THEN f.self_output
    ELSE IncludeOutput(f.input.key, new_case_output)

\* IncludeCase.train, the included case having returned.
IncludeCase_train ==
    /\ Returned("include")
    /\ training
    /\ stack' = Return(Pop(stack),
                       include_output(Top, Top.new_case_output_map[1].out),
                       halted)
    /\ UNCHANGED <<arguments, call, state, results, counters, pc, files,
                   behaviour, selection, io>>

----------------------------------------------------------------------------
(* Control.__call__                                                        *)

\* "Load input and output data", "Generate and run a test case".
Control_call ==
    /\ pc = "init"
    /\ LET on_disk == output_path /= NoPath /\ exists(output_path)
           output == IF on_disk /\ complements(input_doc, files[output_path])
                     THEN files[output_path] ELSE None
       IN  IF on_disk /\ load_raises(output_path)
           THEN /\ pc' = "raised"
                /\ UNCHANGED <<stack, prior_output>>
           ELSE /\ pc' = "run"
                /\ prior_output' = output
                /\ stack' = <<Frame("ctl", input_doc, None, output, FALSE,
                                    <<Case(input_doc, output, -1)>>)>>
    /\ UNCHANGED <<arguments, call, state, counters, files, new_output,
                   exit_status, behaviour, selection, io>>

\* int(bool(self.failure_num)), wrongly taken from the halted flag.
status_from_halted == IF halted THEN 1 ELSE 0

\* int(bool(self.failure_num))
status == IF failure_num /= 0 THEN 1 ELSE 0

\* "Display statistics" without `if line:`.
summary_line_always == TRUE

\* `if line:` of "Display statistics": the TESTS line is shown only when
\* some counter is not zero.
summary_line == success_num /= 0 \/ update_num /= 0 \/ failure_num /= 0

\* The test of "Save updated output data" without its comparison with the
\* prior output.
save_wanted_for_any_output(ret) == output_path /= NoPath

\* The test of "Save updated output data".
save_wanted(ret) ==
    output_path /= NoPath /\ ret /= None /\ ret /= prior_output

\* The root case has returned: "Display statistics", "Save updated output
\* data", return.
Control_return ==
    /\ pc = "run"
    /\ stack /= <<>>
    /\ Top.kind = "ctl"
    /\ Top.pc = "finish"
    /\ LET ret == Top.new_case_output_map[1].out
       IN  /\ new_output' = ret
           /\ IF save_wanted(ret)
              THEN \E reply \in {"", "d"} :
                     /\ io' = [Prompted(reply = "", ret) EXCEPT
                                 !.summary = summary_line]
                     /\ files' = IF reply = ""
                                 THEN dump_output(output_path, ret)
                                 ELSE files
              ELSE /\ io' = [io EXCEPT !.summary = summary_line]
                   /\ UNCHANGED files
    /\ exit_status' = status
    /\ pc' = "done"
    /\ stack' = <<>>
    /\ UNCHANGED <<arguments, call, state, counters, prior_output, behaviour,
                   selection>>

----------------------------------------------------------------------------
(* The runs explored.                                                      *)

RootId == 0
SubId == 10

\* The snippets of the nested suite.
SubTests(m) == [j \in 1..m |-> PyInput(SubId + j, FALSE)]

\* An input document: a root suite of n cases, the p-th of which (if any)
\* is a nested suite of m snippets with output file `path`; the others are
\* snippets.
Document(n, p, m, path) ==
    SuiteInput(RootId, NoPath,
               [i \in 1..n |-> IF i = p
                               THEN SuiteInput(SubId, path, SubTests(m))
                               ELSE PyInput(i, FALSE)])

\* The document with its nested suite moved to a file that the p-th case
\* includes.
Including(d, p) == [d EXCEPT !.tests[p] = IncludeInput(SubId, @)]

PlainDocuments ==
    {Document(n, 0, 0, NoPath) : n \in 0..MaxTests}
    \cup {Document(n, p, m, path) : n \in 1..MaxTests, p \in 1..MaxTests,
                                     m \in 0..MaxNested,
                                     path \in {NoPath, "sub.yaml"}}
    \cup UNION {{Including(Document(n, p, MaxNested, NoPath), p) :
                    p \in 1..n} : n \in 1..MaxTests}

\* The documents, those with `skip: true` on the root suite or on its first
\* case among them.
Documents ==
    PlainDocuments
    \cup {[d EXCEPT !.skip = TRUE] : d \in PlainDocuments}
    \cup {[d EXCEPT !.tests[1].skip = TRUE] :
            d \in {x \in PlainDocuments : x.tests /= <<>>}}

\* The suites selected on the command line: everything; the nested suite;
\* a suite other than the root; every root but no suite nested in it.
Selections ==
    {Selection(TRUE, {}), Selection(FALSE, {<<RootId, SubId>>}),
     Selection(FALSE, {<<SubId>>}), Selection(FALSE, {<<Star, RootId>>})}

\* The output document a training run of `input` leaves when every snippet
\* prints `val` and every output is recorded: nested suites with a file of
\* their own leave no entry, empty suites none either.
RECURSIVE Recorded(_, _)
Recorded(input, val) ==
    IF input.owner = "set" THEN None
    ELSE IF input.owner = "py" THEN PyOutput(input.key, val)
    ELSE IF input.owner = "include"
    THEN LET out == Recorded(input.tests[1], val)
         IN  IF out = None THEN None ELSE IncludeOutput(input.key, out)
    ELSE LET outs == [i \in 1..Len(input.tests) |->
                         Recorded(input.tests[i], val)]
             kept == SelectSeq(outs, LAMBDA o : o /= None)
         IN  IF input.output /= NoPath \/ kept = <<>> THEN None
             ELSE SuiteOutput(input.key, kept)

\* The same with the file of the suite ignored: what the file holds.
RecordedFile(input, val) == Recorded([input EXCEPT !.output = NoPath], val)

Inline(input) ==
    [input EXCEPT !.tests = [i \in 1..Len(input.tests) |->
                                [input.tests[i] EXCEPT !.output = NoPath]]]

\* The suite named sub of a document, None if there is none.
SubOf(input) ==
    IF \E i \in 1..Len(input.tests) : input.tests[i].owner = "suite"
    THEN input.tests[CHOOSE i \in 1..Len(input.tests) :
                        input.tests[i].owner = "suite"]
    ELSE None

\* The files a run may find: none, or those an earlier training left, for
\* this document or for the one that kept the nested suite inline.
FileSystems(input, root_path) ==
    {[path \in Paths |->
        IF path = "root.yaml" THEN root ELSE sub] :
       root \in {None} \cup (IF root_path = NoPath THEN {}
                             ELSE {RecordedFile(input, 1),
                                   RecordedFile(Inline(input), 1)}),
       sub \in {None} \cup (IF SubOf(input) = None THEN {}
                            ELSE {RecordedFile(SubOf(input), 1)})}

\* The values of --max-errors explored: never halt, halt on the first
\* failure, halt on the second.
ErrorLimits == {0, 1, 2}

\* No method of a record or schema has been called.
NoCall == [op |-> "none"]

\* earlier: one entry for each run of the harness that came before the
\* present one over the same files.
NoIO == [prompts |-> 0, dumps |-> 0, dumped_none |-> FALSE, starts |-> 0,
         runs |-> 0, halts |-> 0, summary |-> FALSE, earlier |-> <<>>]

\* The state after Control(...) is constructed, for a given configuration.
Constructed ==
    /\ training \in BOOLEAN
    /\ purging \in BOOLEAN
    /\ training \/ ~purging
    /\ max_errors \in ErrorLimits
    /\ success_num = 0
    /\ failure_num = 0
    /\ update_num = 0
    /\ halted = FALSE
    /\ pc = "init"
    /\ stack = <<>>
    /\ prior_output = None
    /\ new_output = None
    /\ exit_status = -1
    /\ io = NoIO
    /\ call = NoCall

Init ==
    /\ Constructed
    /\ state = State(NoVariables)
    /\ input_doc \in Documents
    /\ output_path \in {NoPath, "root.yaml"}
    /\ files \in FileSystems(input_doc, output_path)
    /\ selection \in Selections
    /\ behaviour = [k \in 1..(SubId + MaxNested + 1) |-> Undetermined]

Next ==
    \/ Control_call
    \/ SuiteCase_call
    \/ BaseCase_skipped
    \/ MatchCase_check
    \/ MatchCase_train
    \/ SuiteCase_check
    \/ SuiteCase_train
    \/ IncludeCase_call
    \/ IncludeCase_check
    \/ IncludeCase_train
    \/ Control_return

Spec == Init /\ [][Next]_vars

----------------------------------------------------------------------------
(* One suite in training, its nested cases of any kind.                    *)

\* Input and output records of a case kind left open (the case-kind
\* extension contract): all the suite sees of such a case is the record its
\* call returns and the halted flag.
CaseInput(key) ==
    [owner |-> "case", key |-> key, ignore |-> FALSE,
     skip |-> FALSE, if_ |-> NoCond,
     unless |-> NoCond,
     output |-> NoPath, tests |-> <<>>]

CaseOutput(key, val) ==
    [owner |-> "case", key |-> key, val |-> val, tests |-> <<>>]

\* BaseCase.__call__ for such a case: it returns its expected output, a
\* new output record, or None, and may halt the run.
Case_call ==
    /\ Calling("case")
    /\ ~skipped(Cur.input)
    /\ \E ret \in {Cur.output, None, CaseOutput(Cur.input.key, 2)},
          halt \in BOOLEAN :
         /\ halted' = halt
         /\ io' = [io EXCEPT !.starts = @ + 1,
                             !.halts = @ + (IF halt THEN 1 ELSE 0)]
         /\ stack' = Return(stack, ret, halt)
    /\ state' = after_skipped(Cur.input, state)
    /\ UNCHANGED <<arguments, call, results, success_num, failure_num,
                   update_num, pc, files, behaviour, selection>>

\* Keys are opaque, so lists of keys are taken up to renaming: each key is
\* at most one more than the largest before it.
Largest(keys) ==
    IF keys = <<>> THEN 0
    ELSE CHOOSE k \in {keys[i] : i \in 1..Len(keys)} :
            \A i \in 1..Len(keys) : keys[i] <= k

RECURSIVE KeyLists(_)
KeyLists(n) ==
    IF n = 0 THEN {<<>>}
    ELSE UNION {{Append(keys, k) : k \in 1..(Largest(keys) + 1)} :
                  keys \in KeyLists(n - 1)}

\* A suite of up to MaxTests cases, run in training mode against a prior
\* output document of up to MaxPrior entries (or none): the keys of the
\* prior entries, then those of the cases.
InitSuite ==
    /\ Constructed
    /\ state = State(NoVariables)
    /\ training
    /\ max_errors = 0
    /\ output_path = "root.yaml"
    /\ selection = Selection(TRUE, {})
    /\ behaviour = [k \in 1..(SubId + MaxNested + 1) |-> Undetermined]
    /\ \E np \in 0..MaxPrior, nt \in 0..MaxTests, has_output \in BOOLEAN :
         \E keys \in KeyLists(np + nt) :
           /\ has_output \/ np = 0
           /\ input_doc = SuiteInput(RootId, NoPath,
                             [i \in 1..nt |-> CaseInput(keys[np + i])])
           /\ files = [path \in Paths |->
                         IF path = "root.yaml" /\ has_output
                         THEN SuiteOutput(RootId,
                                  [i \in 1..np |-> CaseOutput(keys[i], 1)])
                         ELSE None]

NextSuite ==
    \/ Control_call
    \/ SuiteCase_call
    \/ Case_call
    \/ SuiteCase_train

SpecSuite == InitSuite /\ [][NextSuite]_vars

----------------------------------------------------------------------------
(* The harness run a second time over the files the first run left.        *)

\* What is kept of a run that is over; `same` tells whether the snippets
\* behave in the next run as they did in this one.
Earlier(same) ==
    [training |-> training, success_num |-> success_num,
     failure_num |-> failure_num, update_num |-> update_num,
     prompts |-> io.prompts, dumps |-> io.dumps, same |-> same]

\* A new Control is constructed and called with the same input and output
\* paths as the run that has returned, in either mode.
Rerun ==
    /\ pc = "done"
    /\ io.earlier = <<>>
    /\ training' \in BOOLEAN
    /\ purging' = FALSE
    /\ success_num' = 0
    /\ failure_num' = 0
    /\ update_num' = 0
    /\ halted' = FALSE
    /\ pc' = "init"
    /\ prior_output' = None
    /\ new_output' = None
    /\ exit_status' = -1
    /\ \E same \in BOOLEAN :
         /\ behaviour' = IF same THEN behaviour
                         ELSE [k \in DOMAIN behaviour |-> Undetermined]
         /\ io' = [NoIO EXCEPT !.earlier = <<Earlier(same)>>]
    /\ state' = State(NoVariables)
    /\ UNCHANGED <<call, max_errors, input_doc, output_path, files, stack,
                   selection>>

\* A first run in training mode over a suite of snippets, with no output
\* file yet.
InitRerun ==
    /\ Constructed
    /\ state = State(NoVariables)
    /\ training
    /\ ~purging
    /\ input_doc \in {Document(n, 0, 0, NoPath) : n \in 0..MaxTests}
    /\ output_path = "root.yaml"
    /\ files = [path \in Paths |-> None]
    /\ selection = Selection(TRUE, {})
    /\ behaviour = [k \in 1..(SubId + MaxNested + 1) |-> Undetermined]

NextRerun ==
    \/ Control_call
    \/ SuiteCase_call
    \/ MatchCase_check
    \/ MatchCase_train
    \/ SuiteCase_check
    \/ SuiteCase_train
    \/ Control_return
    \/ Rerun

SpecRerun == InitRerun /\ [][NextRerun]_vars

----------------------------------------------------------------------------
(* Training repeated over the files the first training left.               *)

\* What is kept of a training run that is over: whether the operator
\* recorded every new or changed output (the only failures are snippets
\* that produced nothing) and saved at every save prompt, how many times
\* the operator halted the run, and whether None was written to a file.
Training ==
    [accepted |-> /\ failure_num = Cardinality({k \in DOMAIN behaviour :
                                                  behaviour[k] = Fails})
                  /\ io.prompts = io.dumps,
     halts |-> io.halts,
     dumped_none |-> io.dumped_none]

\* A new Control is constructed and called in training mode with the same
\* input, output path, purge setting and error limit as the training run
\* that has returned; the snippets behave as they did.
Retrain ==
    /\ pc = "done"
    /\ io.earlier = <<>>
    /\ success_num' = 0
    /\ failure_num' = 0
    /\ update_num' = 0
    /\ halted' = FALSE
    /\ pc' = "init"
    /\ prior_output' = None
    /\ new_output' = None
    /\ exit_status' = -1
    /\ io' = [NoIO EXCEPT !.earlier = <<Training>>]
    /\ state' = State(NoVariables)
    /\ UNCHANGED <<call, training, purging, max_errors, input_doc,
                   output_path, files, stack, selection, behaviour>>

\* A first run in training mode, with or without --purge and without
\* --max-errors, over the documents without `skip` and the files an earlier
\* training of the same document may have left.
InitRetrain ==
    /\ Constructed
    /\ training
    /\ max_errors = 0
    /\ state = State(NoVariables)
    /\ input_doc \in PlainDocuments
    /\ output_path = "root.yaml"
    /\ files \in {f \in FileSystems(input_doc, output_path) :
                    f["root.yaml"] \in {None, RecordedFile(input_doc, 1)}}
    /\ selection = Selection(TRUE, {})
    /\ behaviour = [k \in 1..(SubId + MaxNested + 1) |-> Undetermined]

NextRetrain ==
    \/ Control_call
    \/ SuiteCase_call
    \/ MatchCase_train
    \/ SuiteCase_train
    \/ IncludeCase_call
    \/ IncludeCase_train
    \/ Control_return
    \/ Retrain

SpecRetrain == InitRetrain /\ [][NextRetrain]_vars

----------------------------------------------------------------------------
(* One suite of snippets and of cases that may raise, in either mode.       *)

\* PythonCase.Input whose `py` names a file (py_as_filename is not None).
PyFileInput(key) ==
    [owner |-> "py", key |-> key, ignore |-> FALSE,
     skip |-> FALSE, if_ |-> NoCond,
     unless |-> NoCond,
     output |-> NoPath, tests |-> <<>>, file |-> TRUE]

py_as_filename(input) == "file" \in DOMAIN input

\* WriteToFileCase.Input(write=key, data=...)
WriteInput(key) ==
    [owner |-> "write", key |-> key, ignore |-> FALSE,
     skip |-> FALSE, if_ |-> NoCond,
     unless |-> NoCond,
     output |-> NoPath, tests |-> <<>>]

\* An exception leaves the case the frame on top is running, and with it
\* every suite and Control.__call__: nothing catches it.
Propagates ==
    /\ pc' = "raised"
    /\ stack' = <<>>
    /\ selection' = unwind(selection)
    /\ state' = unwind_state(after_skipped(Cur.input, state))

\* BaseCase.__call__ of a PythonCase whose `py` names a file that cannot be
\* opened, down to run(): the handler of IOError formats the message with
\* `source`, which is not bound yet, and UnboundLocalError is raised.  In
\* checking mode without an expected output run() is not reached
\* (MatchCase_check).
PythonCase_run_raises ==
    /\ Calling("py")
    /\ py_as_filename(Cur.input)
    /\ ~skipped(Cur.input)
    /\ training \/ Cur.output /= None
    /\ Propagates
    /\ io' = [io EXCEPT !.starts = @ + 1, !.runs = @ + 1]
    /\ UNCHANGED <<arguments, call, results, counters, files, behaviour>>

\* BaseCase.__call__ of a WriteToFileCase that is not skipped; train() is
\* check().  open() raises IOError when the file cannot be created.
WriteToFileCase_check ==
    /\ Calling("write")
    /\ ~skipped(Cur.input)
    /\ io' = [io EXCEPT !.starts = @ + 1]
    /\ \E opened \in BOOLEAN :
         IF opened
         THEN /\ stack' = Return(stack, None, halted)
              /\ state' = after_skipped(Cur.input, state)
              /\ UNCHANGED <<pc, selection>>
         ELSE Propagates
    /\ UNCHANGED <<arguments, call, results, counters, files, behaviour>>

\* The kinds of case tried: a snippet, a snippet with `ignore: true`, a
\* PythonCase that names a file, a WriteToFileCase.
Kinds == {"py", "ignore", "file", "write"}

\* A root suite of such cases; kinds[i] is the kind of the i-th.
MatchDocument(kinds) ==
    SuiteInput(RootId, NoPath,
               [i \in 1..Len(kinds) |->
                  IF kinds[i] = "write" THEN WriteInput(i)
                  ELSE IF kinds[i] = "file" THEN PyFileInput(i)
                  ELSE PyInput(i, kinds[i] = "ignore")])

RECURSIVE KindLists(_)
KindLists(n) ==
    IF n = 0 THEN {<<>>}
    ELSE LET shorter == KindLists(n - 1)
         IN  shorter \cup {Append(kinds, kind) : kinds \in shorter,
                                                 kind \in Kinds}

\* A run in either mode over such a suite, with no output file or the one
\* a training left in which every snippet printed 1.
InitMatch ==
    /\ Constructed
    /\ state = State(NoVariables)
    /\ input_doc \in {MatchDocument(kinds) : kinds \in KindLists(MaxTests)}
    /\ output_path = "root.yaml"
    /\ files \in {[path \in Paths |->
                     IF path = "root.yaml" THEN root ELSE None] :
                    root \in {None, RecordedFile(input_doc, 1)}}
    /\ selection = Selection(TRUE, {})
    /\ behaviour = [k \in 1..(SubId + MaxNested + 1) |-> Undetermined]

NextMatch ==
    \/ Control_call
    \/ SuiteCase_call
    \/ MatchCase_check
    \/ MatchCase_train
    \/ PythonCase_run_raises
    \/ WriteToFileCase_check
    \/ SuiteCase_check
    \/ SuiteCase_train
    \/ Control_return

SpecMatch == InitMatch /\ [][NextMatch]_vars

----------------------------------------------------------------------------
(* Properties of SuiteCase.complement and SuiteCase.train (SpecSuite).     *)

InputKeys(input) == [i \in 1..Len(input.tests) |-> input.tests[i].key]

OutputKeys(output) ==
    IF output = None THEN <<>>
    ELSE [i \in 1..Len(output.tests) |-> output.tests[i].key]

TestsOf(output) == IF output = None THEN <<>> ELSE output.tests

\* In a step that ends the call on top of the stack: the record the call
\* returns, as its caller receives it.
ReturnedNow ==
    LET k == Len(stack) - 1
        j == stack[k].idx
        entry == stack'[k].new_case_output_map[j]
    IN  IF entry.has THEN entry.out ELSE stack[k].cases[j].output

\* The root suite has run its cases and is about to build its output.
RootFinishing == Finishing /\ Len(stack) = 2

\* The root suite has returned to Control.__call__.
RootReturned ==
    /\ pc = "run"
    /\ Len(stack) = 1
    /\ Top.pc = "finish"

\* The record the root suite returned.
RootOutput == stack[1].new_case_output_map[1].out

\* The example of the specification: prior outputs O1, O2, O3; cases C1
\* (unchanged), C4 (new, recorded), C2 (changed, recorded).
C1_Scenario ==
    /\ RootFinishing
    /\ ~halted
    /\ Top.output /= None
    /\ Top.output.tests = <<CaseOutput(1, 1), CaseOutput(2, 1),
                            CaseOutput(3, 1)>>
    /\ InputKeys(Top.input) = <<1, 4, 2>>
    /\ Top.new_case_output_map = <<NoEntry, Entry(CaseOutput(4, 2)),
                                   Entry(CaseOutput(2, 2))>>

C1_Expected ==
    IF purging
    THEN <<CaseOutput(1, 1), CaseOutput(4, 2), CaseOutput(2, 2)>>
    ELSE <<CaseOutput(1, 1), CaseOutput(4, 2), CaseOutput(2, 2),
           CaseOutput(3, 1)>>

\* C1: in training mode, for prior outputs [O1, O2, O3] and cases C1
\* (matched to O1, unchanged), C4 (no prior output, O4 recorded), C2 (matched
\* to O2, O2' recorded), SuiteCase.train yields [O1, O4, O2', O3] without
\* purge and [O1, O4, O2'] with purge.
C1_TrainExample ==
    [][C1_Scenario => ReturnedNow = SuiteOutput(RootId, C1_Expected)]_vars

\* The example has run without purge and the suite has returned
\* [O1, O4, O2', O3].
C1_Witness ==
    /\ RootReturned
    /\ ~purging
    /\ ~halted
    /\ OutputKeys(prior_output) = <<1, 2, 3>>
    /\ InputKeys(input_doc) = <<1, 4, 2>>
    /\ RootOutput = SuiteOutput(RootId, <<CaseOutput(1, 1), CaseOutput(4, 2),
                                          CaseOutput(2, 2), CaseOutput(3, 1)>>)

\* The cases the root suite made, once SuiteCase.complement has returned.
RootCases == stack[2].cases

\* The positions (0-based, in the prior list) claimed by the cases before
\* the i-th.
ClaimedBefore(cases, i) ==
    {cases[h].ref : h \in {g \in 1..(i - 1) : cases[g].ref >= 0}}

\* The i-th case was paired as the greedy rule demands: with the first
\* prior output, in list order, that no earlier case claimed and that its
\* input complements; with None if there is no such output.
GreedyPair(cases, tests, i) ==
    LET free == {j \in 0..(Len(tests) - 1) :
                    /\ j \notin ClaimedBefore(cases, i)
                    /\ complements(cases[i].input, tests[j + 1])}
    IN  IF free = {}
        THEN cases[i].ref = -1 /\ cases[i].output = None
        ELSE cases[i].ref = Min(free) /\ cases[i].output = tests[Min(free) + 1]

\* C10: SuiteCase.complement pairs the inputs greedily, in declared order,
\* each with the first unclaimed prior output it complements (None if there
\* is none); every prior output is paired with at most one case and the
\* cases are created in declared input order.
C10_GreedyComplement ==
    Len(stack) = 2 =>
        LET tests == TestsOf(stack[2].output)
        IN  /\ Len(RootCases) = Len(input_doc.tests)
            /\ \A i \in 1..Len(RootCases) :
                 /\ RootCases[i].input = input_doc.tests[i]
                 /\ GreedyPair(RootCases, tests, i)
            /\ \A i, h \in 1..Len(RootCases) :
                 i /= h /\ RootCases[i].ref >= 0
                    => RootCases[i].ref /= RootCases[h].ref

\* Two cases of one key compete for two prior outputs of that key, and a
\* third case finds none: the pairing is second, none, third.
C10_Witness ==
    /\ Len(stack) = 2
    /\ OutputKeys(stack[2].output) = <<1, 2, 2>>
    /\ InputKeys(input_doc) = <<2, 3, 2>>
    /\ [i \in 1..3 |-> RootCases[i].ref] = <<1, -1, 2>>

\* The output a case returned to SuiteCase.train: the new one if it
\* changed, else the prior one.
ReturnedBy(f, i) ==
    IF f.new_case_output_map[i].has THEN f.new_case_output_map[i].out
    ELSE f.cases[i].output

\* The outputs the cases returned, in input order, None left out.
ReturnedInInputOrder(f) ==
    SelectSeq([i \in 1..Len(f.cases) |-> ReturnedBy(f, i)],
              LAMBDA out : out /= None)

\* The prior outputs (by position) that no case was paired with.
Unmatched(f) ==
    {j \in 0..(Len(TestsOf(f.output)) - 1) :
        \A i \in 1..Len(f.cases) : f.cases[i].ref /= j}

\* C8: with purge and the run not halted, the reconciled list is each
\* case's returned output in input order, cases with no output left out; no
\* more entries than cases, so a prior output matched to no case has no
\* entry of its own.
C8_PurgeInInputOrder ==
    [][RootFinishing /\ purging /\ ~halted
        => /\ TestsOf(ReturnedNow) = ReturnedInInputOrder(Top)
           /\ Len(TestsOf(ReturnedNow)) <= Len(Top.cases)
           /\ \A j \in Unmatched(Top) :
                (\A i \in 1..Len(Top.cases) :
                    ReturnedBy(Top, i) /= Top.output.tests[j + 1])
                => \A k \in 1..Len(TestsOf(ReturnedNow)) :
                      ReturnedNow.tests[k] /= Top.output.tests[j + 1]]_vars

\* A purging run over prior outputs 1, 2, 3 and cases 3, 1, both unchanged:
\* the suite returned [3, 1], in input order and without 2.
C8_Witness ==
    /\ RootReturned
    /\ purging
    /\ ~halted
    /\ OutputKeys(prior_output) = <<1, 2, 3>>
    /\ InputKeys(input_doc) = <<3, 1>>
    /\ RootOutput = SuiteOutput(RootId, <<CaseOutput(3, 1), CaseOutput(1, 1)>>)

\* The single-pass cursor algorithm of the specification, on the live
\* list: each entry carries the position `orig` it had in the prior list
\* (-1 for an inserted one); cursor is 0-based.
RECURSIVE cursor_pass(_, _, _, _)
cursor_pass(list, cursor, cases, map) ==
    IF cases = <<>> THEN list
    ELSE LET case == Head(cases)
             produced == Head(map).has /\ Head(map).out /= None
         IN  IF case.ref >= 0
             THEN LET pos == CHOOSE q \in 1..Len(list) :
                                list[q].orig = case.ref
                  IN  cursor_pass(IF produced
                                  THEN [list EXCEPT ![pos].out = Head(map).out]
                                  ELSE list,
                                  pos, Tail(cases), Tail(map))
             ELSE IF produced
             THEN cursor_pass(Insert(list, cursor,
                                     [orig |-> -1, out |-> Head(map).out]),
                              cursor + 1, Tail(cases), Tail(map))
             ELSE cursor_pass(list, cursor, Tail(cases), Tail(map))

\* The list the cursor algorithm makes of the frame's prior list.
CursorAlgorithm(f) ==
    LET tests == TestsOf(f.output)
        list == cursor_pass([j \in 1..Len(tests) |->
                                [orig |-> j - 1, out |-> tests[j]]],
                            0, f.cases, f.new_case_output_map)
    IN  [j \in 1..Len(list) |-> list[j].out]

\* C7: without purge (or once halted), the list SuiteCase.train builds is
\* the list of the single-pass cursor algorithm, for every sequence of
\* matched cases and outcomes.
C7_CursorEquivalence ==
    [][RootFinishing /\ ~(purging /\ ~halted)
        => TestsOf(ReturnedNow) = CursorAlgorithm(Top)]_vars

\* The same for the runs in which every case with a prior output in the
\* list comes no earlier in the input than the cases matched to the
\* entries before it, and none of them returns None.
C7_InOrder(f) ==
    /\ \A i, h \in 1..Len(f.cases) :
         i < h /\ f.cases[i].ref >= 0 /\ f.cases[h].ref >= 0
            => f.cases[i].ref < f.cases[h].ref
    /\ \A i \in 1..Len(f.cases) :
         f.cases[i].ref >= 0 => ReturnedBy(f, i) /= None

C7_CursorEquivalenceInOrder ==
    [][RootFinishing /\ ~(purging /\ ~halted) /\ C7_InOrder(Top)
        => TestsOf(ReturnedNow) = CursorAlgorithm(Top)]_vars

----------------------------------------------------------------------------
(* Properties of a run of the harness (Spec).                              *)

\* C3: in checking mode, whatever the input, the prior output and the
\* outcome of the cases, dump_output is never called and no save/discard
\* prompt is shown, by a suite with an output file or by Control.__call__.
C3_CheckNeverWrites ==
    ~training => io.dumps = 0 /\ io.prompts = 0

\* A checking run with an output path, over a suite nesting a suite that
\* has an output file of its own on disk, has ended halted with passed and
\* failed cases.
C3_Witness ==
    /\ ~training
    /\ pc = "done"
    /\ output_path /= NoPath
    /\ exists(output_path)
    /\ \E i \in 1..Len(input_doc.tests) :
         /\ input_doc.tests[i].owner = "suite"
         /\ input_doc.tests[i].output /= NoPath
         /\ exists(input_doc.tests[i].output)
    /\ success_num > 0
    /\ failure_num > 0
    /\ halted

\* C4: halted, once true, stays true, and from then on no case starts: no
\* header is shown, no behaviour runs, no frame is pushed, and the loop of
\* the suite on top is over.
C4_HaltedStops ==
    [][halted => /\ halted'
                 /\ io'.starts = io.starts
                 /\ io'.runs = io.runs
                 /\ Len(stack') <= Len(stack)
                 /\ (stack /= <<>> => Top.pc = "finish")
                 /\ \A k \in 1..Len(stack') : stack'[k].idx = stack[k].idx]_vars

\* The run was halted inside a nested suite or include, which has returned
\* to the root suite: the root suite's loop is over with cases left.
C4_Witness ==
    /\ halted
    /\ pc = "run"
    /\ Len(stack) = 2
    /\ Top.pc = "finish"
    /\ Top.idx < Len(Top.cases)
    /\ Cur.input.owner \in {"suite", "include"}

\* C5: if max_errors > 0 and failure_num >= max_errors then halted; with
\* max_errors = 0 halted is true only after an explicit halt.
C5_MaxErrors ==
    /\ max_errors > 0 /\ failure_num >= max_errors => halted
    /\ max_errors = 0 /\ halted => io.halts > 0

\* The second failure of a run with max_errors = 2 halted it, with no
\* explicit halt.
C5_Witness ==
    /\ max_errors = 2
    /\ failure_num = 2
    /\ halted
    /\ io.halts = 0

\* C6: the value Control.__call__ returns is 0 iff failure_num is 0.
C6_ExitStatus ==
    pc = "done" => (exit_status = 0 <=> failure_num = 0)

\* A training run has returned 1 with failures and without having halted.
C6_Witness ==
    /\ pc = "done"
    /\ training
    /\ failure_num > 0
    /\ ~halted
    /\ exit_status = 1

\* A snippet with a prior output whose behaviour, run by this suite, has
\* produced no result.
NowFailing(case) ==
    /\ case.input.owner = "py"
    /\ case.output /= None
    /\ behaviour[case.input.key] = Fails

\* In a step of SuiteCase.train: the list of the record the suite returns
\* or, for a suite with an output file that it saves, of the record it
\* writes.
ReconciledNow ==
    IF Top.input.output = NoPath THEN TestsOf(ReturnedNow)
    ELSE IF files'[Top.input.output] = NullDoc THEN <<>>
    ELSE files'[Top.input.output].tests

\* A suite in a purging training run builds an output that it returns or
\* saves.
C9_Purging ==
    /\ Finishing
    /\ training
    /\ purging
    /\ Top.input.output /= NoPath => io'.dumps = io.dumps + 1

\* C9 as stated: with purge in training mode, the prior output of a case
\* that now fails is dropped from the suite's reconciled list.
C9_FailingDropped ==
    [][C9_Purging
        => \A i \in 1..Len(Top.cases) :
             NowFailing(Top.cases[i])
                => \A k \in 1..Len(ReconciledNow) :
                      ReconciledNow[k] /= Top.cases[i].output]_vars

\* C9, amended: with purge in training mode, the prior output of a case
\* that now fails is kept in the suite's reconciled list, MatchCase.train
\* returning the expected output of a case that fails.
C9_FailingKept ==
    [][C9_Purging
        => \A i \in 1..Len(Top.cases) :
             NowFailing(Top.cases[i])
                => \E k \in 1..Len(ReconciledNow) :
                      ReconciledNow[k] = Top.cases[i].output]_vars

\* A purging training run that did not halt has ended; the first snippet
\* of the root suite failed and its prior output is in the suite's output.
C9_Witness ==
    /\ pc = "done"
    /\ training
    /\ purging
    /\ ~halted
    /\ prior_output /= None
    /\ input_doc.tests /= <<>>
    /\ input_doc.tests[1].owner = "py"
    /\ behaviour[input_doc.tests[1].key] = Fails
    /\ prior_output.tests[1] = PyOutput(input_doc.tests[1].key, 1)
    /\ new_output /= None
    /\ new_output.tests[1] = prior_output.tests[1]
    /\ update_num > 0

----------------------------------------------------------------------------
(* Properties of a training run followed by a second run (SpecRerun).      *)

\* The suite has three snippets.
C2_ThreeSnippets ==
    /\ Len(input_doc.tests) = 3
    /\ \A i \in 1..3 : input_doc.tests[i].owner = "py"

\* The run that came before was a training run in which three outputs
\* were recorded and the document saved, and the snippets behave as then.
C2_Trained ==
    /\ io.earlier /= <<>>
    /\ io.earlier[1].training
    /\ io.earlier[1].update_num = 3
    /\ io.earlier[1].dumps = 1
    /\ io.earlier[1].same

\* C2: a training run over three snippets with no prior output file, every
\* output recorded and the document saved, writes a document of three
\* entries in input order; a checking run of the same input against it,
\* the snippets unchanged, ends with success_num = 3, failure_num = 0 and
\* exit status 0.
C2_TrainThenCheck ==
    /\ ( /\ pc = "done"
         /\ io.earlier = <<>>
         /\ C2_ThreeSnippets
         /\ update_num = 3
         /\ io.dumps = 1 )
       => /\ files[output_path] /= None
          /\ OutputKeys(files[output_path]) = InputKeys(input_doc)
          /\ \A i \in 1..3 :
               files[output_path].tests[i] =
                   PyOutput(input_doc.tests[i].key,
                            behaviour[input_doc.tests[i].key])
    /\ (pc = "done" /\ C2_Trained /\ C2_ThreeSnippets /\ ~training)
       => success_num = 3 /\ failure_num = 0 /\ exit_status = 0

\* The checking run after such a training run has ended with three passed.
C2_Witness ==
    /\ pc = "done"
    /\ C2_Trained
    /\ C2_ThreeSnippets
    /\ ~training
    /\ Len(files[output_path].tests) = 3
    /\ success_num = 3
    /\ exit_status = 0

----------------------------------------------------------------------------
(* A Selection on its own: descend and ascend from any set of targets.      *)

\* The longest target, in segments.
MaxPath == 2

\* Suite identifiers.
Suites == {RootId, SubId, SubId + 1}

\* Targets as Selection.__init__ stores them: tuples of segments, each an
\* identifier or "*".
RECURSIVE Tuples(_)
Tuples(n) ==
    IF n = 0 THEN {<<>>}
    ELSE LET shorter == Tuples(n - 1)
         IN  shorter \cup {Append(t, seg) : t \in {u \in shorter :
                                                     Len(u) = n - 1},
                                            seg \in Suites \cup {Star}}

Targets == Tuples(MaxPath) \ {<<>>}

\* Selection.__init__
Selection_init(targets) ==
    IF targets = {} \/ <<>> \in targets THEN Selection(TRUE, {})
    ELSE Selection(FALSE, targets)

\* Everything but the selection: a Control that is not run.
NotRun ==
    /\ Constructed
    /\ ~training
    /\ max_errors = 0
    /\ input_doc = NullDoc
    /\ output_path = NoPath
    /\ files = [path \in Paths |-> None]
    /\ behaviour = [k \in 1..(SubId + MaxNested + 1) |-> Undetermined]

NotRunning ==
    UNCHANGED <<arguments, results, counters, pc, files, stack, behaviour,
                io>>

\* self.ctl.selection.descend(suite)
Selection_descend ==
    /\ Len(selection.path) <= MaxPath
    /\ \E suite \in Suites : selection' = descend(selection, suite)
    /\ UNCHANGED <<state, call>>
    /\ NotRunning

\* self.ctl.selection.ascend()
Selection_ascend ==
    /\ selection.path /= <<>>
    /\ selection' = ascend(selection)
    /\ UNCHANGED <<state, call>>
    /\ NotRunning

InitSelection ==
    /\ NotRun
    /\ state = State(NoVariables)
    /\ \E some \in BOOLEAN, t1 \in Targets, t2 \in Targets :
         selection = Selection_init(IF some THEN {t1, t2} ELSE {})

NextSelection ==
    \/ Selection_descend
    \/ Selection_ascend

SpecSelection == InitSelection /\ [][NextSelection]_vars

\* The patterns of `sel` whose first segment glob-matches `id`.
Matching(sel, id) == {t \in sel.targets : fnmatchcase(id, t[1])}

\* This step is selection.descend(id).
Descends(id) ==
    /\ Len(selection'.path) = Len(selection.path) + 1
    /\ selection'.path[Len(selection'.path)] = id

\* The selection with the patterns "a/b" and "a/*": a is RootId, b is SubId.
C11_Example == Selection_init({<<RootId, SubId>>, <<RootId, Star>>})

\* The selection the run started from.
Started ==
    IF selection.saved_targets = <<>>
    THEN [all |-> selection.all, targets |-> selection.targets]
    ELSE selection.saved_targets[1]

\* C11: descend(id) on a restricted selection leaves the tails of exactly
\* the patterns whose first segment matches id, and an unrestricted
\* selection if a tail is empty; an unrestricted selection contains every
\* identifier and stays unrestricted under further descends; from
\* ["a/b", "a/*"], descend("a") leaves a selection that contains "b" and
\* anything else, and descend("b") after it one that contains everything.
C11_Descend ==
    /\ [][\A id \in Suites :
            Descends(id) =>
                LET tails == {Tail(t) : t \in Matching(selection, id)}
                IN  /\ selection.all => selection'.all
                    /\ ~selection.all =>
                          /\ selection'.all <=> <<>> \in tails
                          /\ ~selection'.all => selection'.targets = tails
                    /\ selection'.all =>
                          \A x \in Suites : contains(selection', x)]_vars
    /\ [](/\ Started.targets = C11_Example.targets
          /\ ~Started.all
          /\ selection.path /= <<>>
          /\ selection.path[1] = RootId
          => /\ \A x \in Suites : contains(selection, x)
             /\ Len(selection.path) = 1 => ~selection.all
             /\ Len(selection.path) > 1 => selection.all)

\* From ["a/b", "a/*"], descend("a") then descend("b") have been made.
C11_Witness ==
    /\ Started.targets = C11_Example.targets
    /\ selection.path = <<RootId, SubId>>
    /\ selection.all

----------------------------------------------------------------------------
(* A State on its own: snapshots and changes of keys.                       *)

\* The deepest nesting of snapshots.
MaxSnapshots == 2

\* The variables a case sets or deletes.
Settable == Variables \ {"__builtins__"}

\* A method of State is called on the dictionary `self`.
StateCall(op) == [op |-> op, self |-> state.map]

\* self.ctl.state.save()
State_save ==
    /\ Len(state.snapshots) < MaxSnapshots
    /\ state' = save(state)
    /\ call' = StateCall("save")
    /\ UNCHANGED selection
    /\ NotRunning

\* self.ctl.state[name] = value: an insertion or an overwrite.
State_setitem ==
    /\ \E name \in Settable, value \in {"true", "false"} :
         /\ state.map[name] /= value
         /\ state' = setitem(state, name, value)
    /\ call' = StateCall("setitem")
    /\ UNCHANGED selection
    /\ NotRunning

\* del self.ctl.state[name]
State_delitem ==
    /\ \E name \in Settable :
         /\ state.map[name] /= "absent"
         /\ state' = delitem(state, name)
    /\ call' = StateCall("delitem")
    /\ UNCHANGED selection
    /\ NotRunning

\* self.ctl.state.restore()
State_restore ==
    /\ state.snapshots /= <<>>
    /\ state' = restore(state)
    /\ call' = StateCall("restore")
    /\ UNCHANGED selection
    /\ NotRunning

InitState ==
    /\ NotRun
    /\ selection = Selection_init({})
    /\ \E variables \in Dictionaries :
         /\ variables["__builtins__"] = "absent"
         /\ state = State(variables)

NextState ==
    \/ State_save
    \/ State_setitem
    \/ State_delitem
    \/ State_restore

SpecState == InitState /\ [][NextState]_vars

\* C12: save() leaves the contents alone and puts a snapshot equal to them
\* on top of the snapshots; insertions, overwrites and deletions leave every
\* snapshot as it is; restore() makes the contents equal to the top
\* snapshot, that of the matching save(), and removes it, so that nested
\* save/restore pairs return to the contents of their own save().
C12_SaveRestore ==
    [][LET before == Len(state.snapshots)
           after == Len(state'.snapshots)
       IN  /\ after = before + 1 =>
                 /\ state'.map = state.map
                 /\ state'.snapshots = Append(state.snapshots, state.map)
           /\ after = before => state'.snapshots = state.snapshots
           /\ after = before - 1 =>
                 /\ state'.map = state.snapshots[before]
                 /\ state'.snapshots =
                        SubSeq(state.snapshots, 1, before - 1)]_vars

\* The inner restore() of two nested pairs has discarded an insertion and
\* a deletion made since its save(), and the contents still differ from
\* those of the outer save().
C12_Witness ==
    /\ call.op = "restore"
    /\ Len(state.snapshots) = 1
    /\ \E name \in Settable :
         call.self[name] /= "absent" /\ state.map[name] = "absent"
    /\ \E name \in Settable :
         call.self[name] = "absent" /\ state.map[name] /= "absent"
    /\ state.map /= state.snapshots[1]

----------------------------------------------------------------------------
(* Runs over documents with conditional variables: `set` cases, and cases  *)
(* and suites with `skip`, `if` and `unless`.                               *)

\* The preconditions a case is given: skip, `if` and `unless`.
Preconditions ==
    {<<FALSE, NoCond, NoCond>>,
     <<TRUE, NoCond, NoCond>>,
     <<FALSE, AnyOf({"a"}), NoCond>>,
     <<FALSE, NoCond, AnyOf({"a", "b"})>>,
     <<FALSE, Not("a"), NoCond>>,
     <<FALSE, NoCond, Not("a")>>,
     <<FALSE, Invalid, NoCond>>,
     <<FALSE, AnyOf({"a"}), Invalid>>}

Given(input, pre) ==
    [input EXCEPT !.skip = pre[1], !.if_ = pre[2], !.unless = pre[3]]

\* `set: a`, and `set: {a: false, b: true}`.
SetInputs ==
    {SetInput(Named("a")),
     SetInput(Dictionary([name \in Variables |->
                            IF name = "a" THEN "false"
                            ELSE IF name = "b" THEN "true" ELSE "absent"]))}

\* The cases of a nested suite: a `set` and a snippet, in either order.
NestedTests ==
    UNION {{<<inner, PyInput(SubId + 1, FALSE)>>,
            <<PyInput(SubId + 1, FALSE), inner>>} : inner \in SetInputs}

\* A root suite of three cases: a `set`; a snippet or a nested suite of a
\* `set` and a snippet; a snippet.
CondDocuments ==
    {SuiteInput(RootId, NoPath,
                <<first, second, Given(PyInput(3, FALSE), pre)>>) :
       first \in SetInputs,
       second \in {Given(PyInput(2, FALSE), pre) : pre \in Preconditions}
                 \cup {Given(SuiteInput(SubId, path, inner), pre) :
                          inner \in NestedTests, path \in {NoPath, "sub.yaml"},
                          pre \in Preconditions},
       pre \in Preconditions}

InitCond ==
    /\ Constructed
    /\ ~purging
    /\ max_errors = 0
    /\ state \in {State(NoVariables),
                   State([NoVariables EXCEPT !["b"] = "true"])}
    /\ selection \in {Selection_init({}),
                       Selection_init({<<RootId, SubId>>,
                                       <<RootId, Star, SubId>>})}
    /\ input_doc \in CondDocuments
    /\ output_path = "root.yaml"
    /\ files \in {[path \in Paths |->
                      IF path = "root.yaml"
                      THEN RecordedFile(Inline(input_doc), 1)
                      ELSE sub] :
                   sub \in {None} \cup
                           (IF SubOf(input_doc) /= None
                               /\ SubOf(input_doc).output /= NoPath
                            THEN {NullDoc} ELSE {})}
    /\ behaviour = [k \in 1..(SubId + MaxNested + 1) |-> Undetermined]

NextCond ==
    \/ Control_call
    \/ SuiteCase_call
    \/ BaseCase_skipped
    \/ SetCase_check
    \/ MatchCase_check
    \/ MatchCase_train
    \/ SuiteCase_check
    \/ SuiteCase_train
    \/ Control_return

SpecCond == InitCond /\ [][NextCond]_vars

\* The conditional variables and the selection are those of `entry`.
AsAtEntry(entry) ==
    /\ state'.map = entry.state.map
    /\ Len(state'.snapshots) = Len(entry.state.snapshots)
    /\ selection'.path = entry.selection.path
    /\ selection'.all = entry.selection.all
    /\ selection'.targets = entry.selection.targets

\* C13: a SuiteCase call that passes the selection test leaves the
\* contents and the number of snapshots of the State, and the path and the
\* patterns of the Selection, as they were when it was made: when the
\* suite is skipped, when its loop is over (exhausted, or broken by a
\* halt), and when an exception leaves it.
C13_SuiteRestores ==
    [][/\ /\ Calling("suite")
          /\ contains(selection, Cur.input.key)
          /\ skipped(Cur.input)
          /\ stack' /= stack
          => AsAtEntry([state |-> state, selection |-> selection])
       /\ Finishing /\ Len(stack') < Len(stack) => AsAtEntry(Top.entry)
       /\ pc = "run" /\ pc' = "raised" =>
             /\ AsAtEntry(stack[1].entry)
             /\ Cur.input.owner = "suite"
             /\ ascend(descend(selection, Cur.input.key)).targets
                  = selection.targets
             /\ restore(after_skipped(Cur.input, save(state))).map
                  = state.map]_vars

\* A nested suite that changed two variables has returned: the case that
\* follows it in the parent finds the variables as they were before it.
C13_Witness ==
    /\ pc = "run"
    /\ Len(stack) = 2
    /\ Top.idx = 3
    /\ Top.cases[2].input.owner = "suite"
    /\ Top.cases[2].input.tests[1].owner = "set"
    /\ ~Top.cases[2].input.tests[1].set_.str
    /\ io.starts >= 4
    /\ state.map["a"] = "true"
    /\ state.map["b"] = "absent"
    /\ ~selection.all

\* A suite skipped by an expression has returned, the `__builtins__` that
\* eval left in the variables gone with it.
C13_SkippedByExpression ==
    /\ pc = "run"
    /\ Len(stack) = 2
    /\ Top.idx = 3
    /\ Top.cases[2].input.owner = "suite"
    /\ Top.cases[2].input.unless.kind = "expr"
    /\ io.starts = 2
    /\ state.map["__builtins__"] = "absent"

\* An exception has left a nested suite and its parent.
C13_Raised ==
    /\ pc = "raised"
    /\ io.starts >= 3

\* The loop of a nested suite was broken by a halt.
C13_Halted ==
    /\ Finishing
    /\ Len(stack) = 3
    /\ halted
    /\ Top.idx < Len(Top.cases)

\* The preconditions of `input` are not satisfied, and no condition that
\* is evaluated raises.
Unsatisfied(input) ==
    \/ input.skip
    \/ /\ input.if_.kind /= "none"
       /\ evaluate(input.if_, state) = "false"
    \/ /\ input.if_.kind /= "none" => evaluate(input.if_, state) = "true"
       /\ input.unless.kind /= "none"
       /\ evaluate(input.unless, evaluated(input.if_, state)) = "true"

\* In a step that ends the call of the case the frame on top is running:
\* the record the frame receives from it.
CaseReturnedNow ==
    LET entry == stack'[Len(stack)].new_case_output_map[Top.idx]
    IN  IF entry.has THEN entry.out ELSE Cur.output

\* C14: the call of a case whose preconditions are not satisfied, no
\* condition raising, returns the expected output it was given, runs
\* neither start() nor the case itself, and leaves success_num,
\* failure_num, update_num and halted as they are.
C14_SkippedReturnsOutput ==
    [][/\ pc = "run"
       /\ stack /= <<>>
       /\ Top.pc = "loop"
       /\ Unsatisfied(Cur.input)
       /\ stack' /= stack
       => /\ Len(stack') = Len(stack)
          /\ CaseReturnedNow = Cur.output
          /\ io'.starts = io.starts
          /\ io'.runs = io.runs
          /\ behaviour' = behaviour
          /\ UNCHANGED counters]_vars

\* A training run has skipped a snippet that has an expected output and an
\* `if` that names a false variable, and has gone on to the next case.
C14_Witness ==
    /\ training
    /\ pc = "run"
    /\ Len(stack) = 2
    /\ Top.idx = 3
    /\ Top.cases[2].input.owner = "py"
    /\ Top.cases[2].input.if_.kind = "list"
    /\ state.map["a"] = "false"
    /\ Top.cases[2].output /= None
    /\ ~Top.new_case_output_map[2].has
    /\ io.runs = 0
    /\ ~halted

----------------------------------------------------------------------------
(* Records and their types: fields, recognition, loading and dumping.      *)

\* Values of fields as YAML gives them: the kind of the value and, where it
\* matters, its text.  A list or dictionary is known by what it holds.
NoneV == [t |-> "none", v |-> ""]
BoolV(v) == [t |-> "bool", v |-> v]
StrV(v) == [t |-> "str", v |-> v]
IntV(v) == [t |-> "int", v |-> v]
FloatV(v) == [t |-> "float", v |-> v]
ListV(v) == [t |-> "list", v |-> v]
DictV(v) == [t |-> "dict", v |-> v]
RecordV(v) == [t |-> "record", v |-> v]

\* isinstance(value, check), for the checks the fields are declared with;
\* bool is a subclass of int, an empty list is a list of anything.
isinstance(value, check) ==
    CASE check = "bool" -> value.t = "bool"
      [] check = "str" -> value.t = "str"
      [] check = "int" -> value.t \in {"int", "bool"}
      [] check = "float" -> value.t = "float"
      [] check = "Record" -> value.t = "record"
      [] check = "maybe(str)" -> value.t \in {"none", "str"}
      [] check = "oneof(bool, str)" -> value.t \in {"bool", "str"}
      [] check = "listof(str)" ->
             value.t = "list" /\ value.v \in {"", "str"}
      [] check = "listof(Record)" ->
             value.t = "list" /\ value.v \in {"", "record"}
      [] check = "oneof(str, listof(str))" ->
             \/ value.t = "str"
             \/ value.t = "list" /\ value.v \in {"", "str"}
      [] check = "dictof(str, str)" -> value.t = "dict"
      [] check = "oneof(str, dictof(str, object))" ->
             value.t \in {"str", "dict"}

\* value == other, in Python: False == 0 and True == 1.
Number(value) ==
    IF value.t = "bool" THEN IntV(IF value.v = "true" THEN "1" ELSE "0")
    ELSE value

equals(value, other) == Number(value) = Number(other)

\* The texts of the model: a title or a snippet, an identifier that is a
\* file name too, and an opening parenthesis.
Texts == {"A b", "a-b", "("}

\* to_identifier
to_identifier(text) ==
    CASE text = "A b" -> "a-b"
      [] text = "a-b" -> "a-b"
      [] OTHER -> "-"

\* is_filename
is_filename(text) == text = "a-b"

\* re.compile(text, re.X|re.M) raises re.error.
compile_raises(text) == text = "("

\* TestFieldSpec
Field(attr, key, check, default, required) ==
    [attr |-> attr, key |-> key, check |-> check, default |-> default,
     required |-> required]

\* TestRecord.__make__: the type of the Input or Output records of a test
\* type.
Schema(owner, role, fields) ==
    [owner |-> owner, role |-> role, fields |-> fields]

\* registry.input_types: the Input record types test_type generates from
\* the declarations of std.py, in the order of registration.  The fields of
\* a type are those of its declaration and of the declarations of the bases
\* of its test type, sorted by `order`; a required field has default None.
input_types ==
  <<
    Schema("SetCase", "Input",
        <<Field("set_", "set", "oneof(str, dictof(str, object))", NoneV, TRUE),
          Field("skip", "skip", "bool", BoolV("false"), FALSE),
          Field("if_", "if", "oneof(str, listof(str))", NoneV, FALSE),
          Field("unless", "unless", "oneof(str, listof(str))", NoneV, FALSE)>>),
    Schema("SuiteCase", "Input",
        <<Field("suite", "suite", "str", NoneV, FALSE),
          Field("title", "title", "str", NoneV, TRUE),
          Field("output", "output", "str", NoneV, FALSE),
          Field("tests", "tests", "listof(Record)", NoneV, TRUE),
          Field("skip", "skip", "bool", BoolV("false"), FALSE),
          Field("if_", "if", "oneof(str, listof(str))", NoneV, FALSE),
          Field("unless", "unless", "oneof(str, listof(str))", NoneV, FALSE)>>),
    Schema("IncludeCase", "Input",
        <<Field("include", "include", "str", NoneV, TRUE),
          Field("skip", "skip", "bool", BoolV("false"), FALSE),
          Field("if_", "if", "oneof(str, listof(str))", NoneV, FALSE),
          Field("unless", "unless", "oneof(str, listof(str))", NoneV, FALSE)>>),
    Schema("PythonCase", "Input",
        <<Field("py", "py", "str", NoneV, TRUE),
          Field("stdin", "stdin", "str", StrV(""), FALSE),
          Field("except_", "except", "str", NoneV, FALSE),
          Field("ignore", "ignore", "oneof(bool, str)", BoolV("false"), FALSE),
          Field("skip", "skip", "bool", BoolV("false"), FALSE),
          Field("if_", "if", "oneof(str, listof(str))", NoneV, FALSE),
          Field("unless", "unless", "oneof(str, listof(str))", NoneV, FALSE)>>),
    Schema("ShellCase", "Input",
        <<Field("sh", "sh", "oneof(str, listof(str))", NoneV, TRUE),
          Field("cd", "cd", "str", NoneV, FALSE),
          Field("environ", "environ", "dictof(str, str)", NoneV, FALSE),
          Field("stdin", "stdin", "str", StrV(""), FALSE),
          Field("exit", "exit", "int", IntV("0"), FALSE),
          Field("ignore", "ignore", "oneof(bool, str)", BoolV("false"), FALSE),
          Field("skip", "skip", "bool", BoolV("false"), FALSE),
          Field("if_", "if", "oneof(str, listof(str))", NoneV, FALSE),
          Field("unless", "unless", "oneof(str, listof(str))", NoneV, FALSE)>>),
    Schema("WriteToFileCase", "Input",
        <<Field("write", "write", "str", NoneV, TRUE),
          Field("data", "data", "str", NoneV, TRUE),
          Field("skip", "skip", "bool", BoolV("false"), FALSE),
          Field("if_", "if", "oneof(str, listof(str))", NoneV, FALSE),
          Field("unless", "unless", "oneof(str, listof(str))", NoneV, FALSE)>>),
    Schema("ReadFromFileCase", "Input",
        <<Field("read", "read", "str", NoneV, TRUE),
          Field("ignore", "ignore", "oneof(bool, str)", BoolV("false"), FALSE),
          Field("skip", "skip", "bool", BoolV("false"), FALSE),
          Field("if_", "if", "oneof(str, listof(str))", NoneV, FALSE),
          Field("unless", "unless", "oneof(str, listof(str))", NoneV, FALSE)>>),
    Schema("RemoveFileCase", "Input",
        <<Field("rm", "rm", "oneof(str, listof(str))", NoneV, TRUE),
          Field("skip", "skip", "bool", BoolV("false"), FALSE),
          Field("if_", "if", "oneof(str, listof(str))", NoneV, FALSE),
          Field("unless", "unless", "oneof(str, listof(str))", NoneV, FALSE)>>),
    Schema("MakeDirectoryCase", "Input",
        <<Field("mkdir", "mkdir", "str", NoneV, TRUE),
          Field("skip", "skip", "bool", BoolV("false"), FALSE),
          Field("if_", "if", "oneof(str, listof(str))", NoneV, FALSE),
          Field("unless", "unless", "oneof(str, listof(str))", NoneV, FALSE)>>),
    Schema("RemoveDirectoryCase", "Input",
        <<Field("rmdir", "rmdir", "str", NoneV, TRUE),
          Field("skip", "skip", "bool", BoolV("false"), FALSE),
          Field("if_", "if", "oneof(str, listof(str))", NoneV, FALSE),
          Field("unless", "unless", "oneof(str, listof(str))", NoneV, FALSE)>>),
    Schema("DoctestCase", "Input",
        <<Field("doctest", "doctest", "str", NoneV, TRUE),
          Field("skip", "skip", "bool", BoolV("false"), FALSE),
          Field("if_", "if", "oneof(str, listof(str))", NoneV, FALSE),
          Field("unless", "unless", "oneof(str, listof(str))", NoneV, FALSE)>>),
    Schema("UnittestCase", "Input",
        <<Field("unittest", "unittest", "str", NoneV, TRUE),
          Field("skip", "skip", "bool", BoolV("false"), FALSE),
          Field("if_", "if", "oneof(str, listof(str))", NoneV, FALSE),
          Field("unless", "unless", "oneof(str, listof(str))", NoneV, FALSE)>>),
    Schema("PytestCase", "Input",
        <<Field("pytest", "pytest", "str", NoneV, TRUE),
          Field("skip", "skip", "bool", BoolV("false"), FALSE),
          Field("if_", "if", "oneof(str, listof(str))", NoneV, FALSE),
          Field("unless", "unless", "oneof(str, listof(str))", NoneV, FALSE)>>),
    Schema("CoverageCase", "Input",
        <<Field("coverage", "coverage", "maybe(str)", NoneV, TRUE),
          Field("data_file", "data-file", "str", NoneV, FALSE),
          Field("auto_data", "auto-data", "bool", BoolV("false"), FALSE),
          Field("timid", "timid", "bool", NoneV, FALSE),
          Field("branch", "branch", "bool", NoneV, FALSE),
          Field("source", "source", "listof(str)", NoneV, FALSE),
          Field("include", "include", "listof(str)", NoneV, FALSE),
          Field("omit", "omit", "listof(str)", NoneV, FALSE),
          Field("skip", "skip", "bool", BoolV("false"), FALSE),
          Field("if_", "if", "oneof(str, listof(str))", NoneV, FALSE),
          Field("unless", "unless", "oneof(str, listof(str))", NoneV, FALSE)>>),
    Schema("CoverageCheckCase", "Input",
        <<Field("coverage_check", "coverage-check", "float", NoneV, TRUE),
          Field("skip", "skip", "bool", BoolV("false"), FALSE),
          Field("if_", "if", "oneof(str, listof(str))", NoneV, FALSE),
          Field("unless", "unless", "oneof(str, listof(str))", NoneV, FALSE)>>),
    Schema("CoverageReportCase", "Input",
        <<Field("coverage_report", "coverage-report", "str", NoneV, TRUE),
          Field("skip", "skip", "bool", BoolV("false"), FALSE),
          Field("if_", "if", "oneof(str, listof(str))", NoneV, FALSE),
          Field("unless", "unless", "oneof(str, listof(str))", NoneV, FALSE)>>)
  >>

\* registry.output_types, in the order of registration.
output_types ==
  <<
    Schema("SuiteCase", "Output",
        <<Field("suite", "suite", "str", NoneV, TRUE),
          Field("tests", "tests", "listof(Record)", NoneV, TRUE)>>),
    Schema("IncludeCase", "Output",
        <<Field("include", "include", "str", NoneV, TRUE),
          Field("output", "output", "Record", NoneV, TRUE)>>),
    Schema("PythonCase", "Output",
        <<Field("py", "py", "str", NoneV, TRUE),
          Field("stdout", "stdout", "str", NoneV, TRUE)>>),
    Schema("ShellCase", "Output",
        <<Field("sh", "sh", "oneof(str, listof(str))", NoneV, TRUE),
          Field("stdout", "stdout", "str", NoneV, TRUE)>>),
    Schema("ReadFromFileCase", "Output",
        <<Field("read", "read", "str", NoneV, TRUE),
          Field("data", "data", "str", NoneV, TRUE)>>)
  >>

\* cls.Input and cls.Output of the test type of the given name.
InputOf(owner) ==
    input_types[CHOOSE i \in 1..Len(input_types) :
                  input_types[i].owner = owner]

OutputOf(owner) ==
    output_types[CHOOSE i \in 1..Len(output_types) :
                   output_types[i].owner = owner]

\* sorted(): the keys a mapping may have, in the order of Python strings.
SortedKeys ==
    <<"aa", "auto-data", "branch", "cd", "coverage", "coverage-check",
    "coverage-report", "data", "data-file", "doctest", "environ", "except",
    "exit", "if", "ignore", "include", "mkdir", "omit", "output", "py",
    "pytest", "read", "rm", "rmdir", "set", "sh", "skip", "source", "stdin",
    "stdout", "suite", "tests", "timid", "title", "unittest", "unless",
    "write", "zz">>

\* The most keys a mapping has.
MaxKeys == 3

\* The sets of at most n of the given keys.
RECURSIVE KeySets(_, _)
KeySets(keys, n) ==
    IF n = 0 THEN {{}}
    ELSE LET smaller == KeySets(keys, n - 1)
         IN  smaller \cup {K \cup {key} : K \in smaller, key \in keys}

AllKeys == {SortedKeys[i] : i \in 1..Len(SortedKeys)}

\* The keys of the fields of a record type.
KeysOf(S) == {S.fields[i].key : i \in 1..Len(S.fields)}

\* TestRecord.__recognizes__ asking for any of the required fields.
recognizes_any_required(S, keys) ==
    \E i \in 1..Len(S.fields) :
        S.fields[i].required /\ S.fields[i].key \in keys

\* TestRecord.__recognizes__
TestRecord_recognizes(S, keys) ==
    /\ \E i \in 1..Len(S.fields) : S.fields[i].required
    /\ \A i \in 1..Len(S.fields) :
          S.fields[i].required => S.fields[i].key \in keys

\* SuiteCase.Input.__recognizes__
SuiteCase_Input_recognizes(keys) == "tests" \in keys

\* cls.__recognizes__(keys), with the method the class has.
recognizes(S, keys) ==
    IF S = InputOf("SuiteCase") THEN SuiteCase_Input_recognizes(keys)
    ELSE TestRecord_recognizes(S, keys)

\* No record type.
NoSchema == Schema("", "", <<>>)

\* The loop of construct_yaml_map with the `break` left out: the last type
\* that recognizes the keys.
last_detected_record_type(record_types, keys) ==
    LET hits == {i \in 1..Len(record_types) :
                   recognizes(record_types[i], keys)}
    IN  IF hits = {} THEN NoSchema
        ELSE record_types[CHOOSE i \in hits : \A j \in hits : j <= i]

\* TestLoader.construct_yaml_map: "Find a record class matching the set of
\* keys".
detected_record_type(record_types, keys) ==
    LET hits == {i \in 1..Len(record_types) :
                   recognizes(record_types[i], keys)}
    IN  IF hits = {} THEN NoSchema
        ELSE record_types[CHOOSE i \in hits : \A j \in hits : i <= j]

\* The registered record types.
Registered ==
    {input_types[i] : i \in 1..Len(input_types)}
      \cup {output_types[i] : i \in 1..Len(output_types)}

\* S.__recognizes__(keys) is called.
Record_recognizes ==
    /\ call.op = "none"
    /\ \E S \in Registered :
         \E keys \in KeySets(KeysOf(S) \cup {"aa", "zz"}, MaxKeys) :
            /\ call' = [op |-> "recognizes", schema |-> S, keys |-> keys,
                        result |-> recognizes(S, keys)]
            /\ UNCHANGED <<state, selection>>
            /\ NotRunning

\* The loader meets a mapping where it expects a record.
TestLoader_construct_yaml_map ==
    /\ call.op = "none"
    /\ \E record_types \in {input_types, output_types},
          keys \in KeySets(AllKeys, MaxKeys) :
         /\ call' = [op |-> "detect", record_types |-> record_types,
                     keys |-> keys,
                     result |-> detected_record_type(record_types, keys)]
         /\ UNCHANGED <<state, selection>>
         /\ NotRunning

\* A mapping is a function from the keys it has to their values.  The
\* outcome of a call that builds a record: the exception raised, or the
\* record, a sequence of values parallel to the fields of its type.
Raised(exc, what, key) ==
    [raised |-> TRUE, exc |-> exc, what |-> what, key |-> key,
     record |-> <<>>]

Built(record) ==
    [raised |-> FALSE, exc |-> "", what |-> "", key |-> "",
     record |-> record]

\* sorted(mapping)[0]
smallest(keys) ==
    SortedKeys[CHOOSE i \in 1..Len(SortedKeys) :
                 /\ SortedKeys[i] \in keys
                 /\ \A j \in 1..(i - 1) : SortedKeys[j] \notin keys]

\* TestRecord.__load__: the first field, in the order of declaration, that
\* is missing or invalid raises; then the smallest key left over does.
TestRecord_load(S, mapping) ==
    LET fields == S.fields
        bad == {i \in 1..Len(fields) :
                  IF fields[i].key \in DOMAIN mapping
                  THEN ~isinstance(mapping[fields[i].key], fields[i].check)
                  ELSE fields[i].required}
        left == DOMAIN mapping \ KeysOf(S)
    IN  IF bad /= {}
        THEN LET i == CHOOSE i \in bad : \A j \in bad : i <= j
             IN  Raised("ValueError",
                        IF fields[i].key \in DOMAIN mapping
                        THEN "invalid field" ELSE "missing field",
                        fields[i].key)
        ELSE IF left /= {}
        THEN Raised("ValueError", "unknown field", smallest(left))
        ELSE Built([i \in 1..Len(fields) |->
                      IF fields[i].key \in DOMAIN mapping
                      THEN mapping[fields[i].key]
                      ELSE fields[i].default])

\* mapping[key] = value
With(mapping, key, value) ==
    [k \in DOMAIN mapping \cup {key} |->
       IF k = key THEN value ELSE mapping[k]]

\* SuiteCase.Input.__load__: `suite` is made from `title` when it is not
\* given; to_identifier calls splitlines(), which only a text has.
SuiteCase_Input_load(S, mapping) ==
    IF "suite" \notin DOMAIN mapping /\ "title" \in DOMAIN mapping
    THEN IF mapping["title"].t /= "str"
         THEN Raised("AttributeError", "splitlines", "title")
         ELSE TestRecord_load(S, With(mapping, "suite",
                                      StrV(to_identifier(mapping["title"].v))))
    ELSE TestRecord_load(S, mapping)

\* MatchCase.Input.__load__: a text given for `ignore` is compiled; then
\* super(MatchCase.Input, cls) is asked for, where MatchCase.Input is the
\* class of the declaration, whose members test_type copied into the
\* record type: it is no base of `cls`, and super raises TypeError.
MatchCase_Input_load(S, mapping) ==
    IF /\ "ignore" \in DOMAIN mapping
       /\ mapping["ignore"].t = "str"
       /\ compile_raises(mapping["ignore"].v)
    THEN Raised("ValueError", "invalid regular expression", "ignore")
    ELSE Raised("TypeError", "super", "")

\* cls.__load__(mapping), with the method the class has.
load(S, mapping) ==
    IF S = InputOf("SuiteCase") THEN SuiteCase_Input_load(S, mapping)
    ELSE IF /\ S.owner \in {"PythonCase", "ShellCase", "ReadFromFileCase"}
            /\ S.role = "Input"
    THEN MatchCase_Input_load(S, mapping)
    ELSE TestRecord_load(S, mapping)

\* TestRecord.__dump__ with `and not field.required` left out.
dump_only_changed(S, record) ==
    LET kept == SelectSeq([i \in 1..Len(S.fields) |-> i],
                          LAMBDA i : ~equals(record[i], S.fields[i].default))
    IN  [n \in 1..Len(kept) |-> <<S.fields[kept[n]].key, record[kept[n]]>>]

\* TestRecord.__dump__: the list of (key, value).
dump(S, record) ==
    LET kept == SelectSeq([i \in 1..Len(S.fields) |-> i],
                          LAMBDA i : ~(/\ equals(record[i], S.fields[i].default)
                                       /\ ~S.fields[i].required))
    IN  [n \in 1..Len(kept) |-> <<S.fields[kept[n]].key, record[kept[n]]>>]

\* dict(pairs)
dict(pairs) ==
    [key \in {pairs[n][1] : n \in 1..Len(pairs)} |->
       pairs[CHOOSE n \in 1..Len(pairs) : pairs[n][1] = key][2]]

\* TestRecord.__eq__: the same class and equal tuples of values.
Record_eq(S, record, T, other) ==
    /\ S = T
    /\ \A i \in 1..Len(S.fields) : equals(record[i], other[i])

\* The values tried for a field: some that pass its check, one that does
\* not.
Samples(check) ==
    CASE check = "bool" -> {BoolV("true"), StrV("a-b")}
      [] check = "str" -> {StrV("A b"), StrV("a-b"), NoneV}
      [] check = "int" -> {IntV("1"), BoolV("false"), StrV("a-b")}
      [] check = "float" -> {FloatV("1.5"), IntV("1")}
      [] check = "Record" -> {RecordV("a-b"), StrV("a-b")}
      [] check = "maybe(str)" -> {NoneV, StrV("a-b"), BoolV("true")}
      [] check = "oneof(bool, str)" ->
             {BoolV("true"), StrV("a-b"), StrV("("), NoneV}
      [] check = "listof(str)" -> {ListV("str"), ListV("record")}
      [] check = "listof(Record)" ->
             {ListV("record"), ListV(""), StrV("a-b")}
      [] check = "oneof(str, listof(str))" ->
             {StrV("a-b"), ListV("str"), NoneV}
      [] check = "dictof(str, str)" -> {DictV("str"), StrV("a-b")}
      [] check = "oneof(str, dictof(str, object))" ->
             {StrV("a-b"), DictV("str"), NoneV}

\* Keys no record type has.
UnknownKeys == {"aa", "zz"}

\* The field of S with the given key.
FieldOf(S, key) ==
    S.fields[CHOOSE i \in 1..Len(S.fields) : S.fields[i].key = key]

\* The values tried for a key of a mapping given to S.__load__.
ValuesFor(S, key) ==
    IF key \in KeysOf(S) THEN Samples(FieldOf(S, key).check)
    ELSE {StrV("a-b")}

\* The mappings of at most n of the given keys that S.__load__ is given.
RECURSIVE MappingsOf(_, _, _)
MappingsOf(S, keys, n) ==
    IF n = 0 THEN {<<>>}
    ELSE LET smaller == MappingsOf(S, keys, n - 1)
         IN  smaller \cup
             UNION {UNION {{With(m, key, value) : value \in ValuesFor(S, key)} :
                             key \in keys \ DOMAIN m} :
                      m \in smaller}

Mappings(S) == MappingsOf(S, KeysOf(S) \cup UnknownKeys, MaxKeys)

\* cls(**kwds) with values the checks allow: the records built directly,
\* fields that are not given holding their defaults.
Constructed_records(S) ==
    LET outcomes == {TestRecord_load(S, mapping) : mapping \in Mappings(S)}
    IN  {outcome.record : outcome \in {o \in outcomes : ~o.raised}}

\* No call is under way.
Idle == call.op = "none"

\* A call is made, of a method of a record or of a record type.
Calls(made) ==
    /\ call' = made
    /\ UNCHANGED <<state, selection>>
    /\ NotRunning

\* S.__load__(mapping) is called.
Record_load ==
    /\ Idle
    /\ \E S \in Registered :
         \E mapping \in Mappings(S) :
            Calls([op |-> "load", schema |-> S, mapping |-> mapping,
                   result |-> load(S, mapping)])

\* record.__dump__() is called, on a record built directly or on the one
\* just loaded.
Record_dump ==
    \/ /\ Idle
       /\ \E S \in Registered :
            \E record \in Constructed_records(S) :
               Calls([op |-> "dump", schema |-> S, record |-> record,
                      loaded |-> FALSE, result |-> dump(S, record)])
    \/ /\ call.op = "load"
       /\ ~call.result.raised
       /\ Calls([op |-> "dump", schema |-> call.schema,
                 record |-> call.result.record, loaded |-> TRUE,
                 result |-> dump(call.schema, call.result.record)])

\* The list a record was dumped to is made a mapping and loaded.
Record_reload ==
    /\ call.op = "dump"
    /\ Calls([op |-> "reload", schema |-> call.schema,
              record |-> call.record, loaded |-> call.loaded,
              result |-> load(call.schema, dict(call.result))])

\* The value of the field `attr` of a record.
getattr(S, record, attr) ==
    record[CHOOSE i \in 1..Len(S.fields) : S.fields[i].attr = attr]

\* The fields of S that are required and are required fields of T too.
Common(S, T) ==
    {i \in 1..Len(S.fields) :
       /\ S.fields[i].required
       /\ \E j \in 1..Len(T.fields) :
             T.fields[j].required /\ T.fields[j].attr = S.fields[i].attr}

\* TestRecord.__complements__ without the test of the owner.
complements_any_owner(S, record, T, other) ==
    /\ S /= T
    /\ Common(S, T) /= {}
    /\ LET i == CHOOSE i \in Common(S, T) : \A j \in Common(S, T) : i <= j
           attr == S.fields[i].attr
       IN  equals(record[i], getattr(T, other, attr))

\* TestRecord.__complements__
TestRecord_complements(S, record, T, other) ==
    /\ S.owner = T.owner
    /\ S /= T
    /\ Common(S, T) /= {}
    /\ LET i == CHOOSE i \in Common(S, T) : \A j \in Common(S, T) : i <= j
           attr == S.fields[i].attr
       IN  equals(record[i], getattr(T, other, attr))

\* SuiteCase.Input.__complements__
SuiteCase_Input_complements(S, record, T, other) ==
    /\ T = OutputOf("SuiteCase")
    /\ equals(getattr(S, record, "suite"), getattr(T, other, "suite"))

\* PythonCase.Input.py_key
py_key(py) ==
    IF is_filename(py.v) THEN py ELSE StrV(to_identifier(py.v))

\* PythonCase.Input.__complements__
PythonCase_Input_complements(S, record, T, other) ==
    /\ T = OutputOf("PythonCase")
    /\ equals(py_key(getattr(S, record, "py")), getattr(T, other, "py"))

\* record.__complements__(other), with the method the class has.
record_complements(S, record, T, other) ==
    IF S = InputOf("SuiteCase")
    THEN SuiteCase_Input_complements(S, record, T, other)
    ELSE IF S = InputOf("PythonCase")
    THEN PythonCase_Input_complements(S, record, T, other)
    ELSE TestRecord_complements(S, record, T, other)

\* The keys that identify a record of S: those of its required fields,
\* and `suite`.
IdentifyingKeys(S) ==
    {S.fields[i].key : i \in {j \in 1..Len(S.fields) :
                                S.fields[j].required}}
      \cup (KeysOf(S) \cap {"suite"})

\* Records built directly from their identifying fields.
Identified_records(S) ==
    LET outcomes == {TestRecord_load(S, mapping) :
                       mapping \in MappingsOf(S, IdentifyingKeys(S), MaxKeys)}
    IN  {outcome.record : outcome \in {o \in outcomes : ~o.raised}}

\* record.__complements__(other) is called.
Record_complements ==
    /\ Idle
    /\ \E S \in Registered, T \in Registered :
         \E record \in Identified_records(S),
            other \in Identified_records(T) :
            Calls([op |-> "complements", schema |-> S, record |-> record,
                   other_schema |-> T, other |-> other,
                   result |-> record_complements(S, record, T, other)])

\* Scalars are sequences of characters.  The characters tried: a letter, a
\* digit, a hyphen, the punctuation of a substitution, and a blank.
Characters == {"a", "1", "-", ":", "}", " "}

\* The character classes of substitute_re: [a-zA-Z_], [0-9a-zA-Z_.-] and
\* [0-9A-Za-z~@#^&*_;:,./?=+-].
NameStart == {"a"}
NameRest == {"a", "1", "-"}
DefaultText == {"a", "1", "-", ":"}

\* The longest body of a scalar, after its first two characters.
MaxScalar == 4

\* The position where the greedy run of characters of a class that starts
\* at position i ends (i - 1 when it is empty).
RECURSIVE RunEnd(_, _, _)
RunEnd(text, i, class) ==
    IF i <= Len(text) /\ text[i] \in class THEN RunEnd(text, i + 1, class)
    ELSE i - 1

NoMatch == [matched |-> FALSE, name |-> <<>>, given |-> FALSE,
            default |-> <<>>]

\* substitute_re.match without the group of the default.
substitute_re_without_default(text) ==
    IF Len(text) >= 3 /\ text[1] = "$" /\ text[2] = "{"
                      /\ text[3] \in NameStart
    THEN LET e == RunEnd(text, 4, NameRest)
         IN  IF e + 1 <= Len(text) /\ text[e + 1] \in {"}", ":"}
             THEN [matched |-> TRUE, name |-> SubSeq(text, 3, e),
                   given |-> FALSE, default |-> <<>>]
             ELSE NoMatch
    ELSE NoMatch

\* substitute_re.match(text): the pattern is looked for at the start of the
\* text, and what follows the closing brace is not looked at.  `given`
\* tells whether the group `default` took part in the match.
substitute_re(text) ==
    IF Len(text) >= 3 /\ text[1] = "$" /\ text[2] = "{"
                      /\ text[3] \in NameStart
    THEN LET e == RunEnd(text, 4, NameRest)
             d == RunEnd(text, e + 2, DefaultText)
         IN  IF /\ e + 1 <= Len(text) /\ text[e + 1] = ":"
                /\ d + 1 <= Len(text) /\ text[d + 1] = "}"
             THEN [matched |-> TRUE, name |-> SubSeq(text, 3, e),
                   given |-> TRUE, default |-> SubSeq(text, e + 2, d)]
             ELSE IF e + 1 <= Len(text) /\ text[e + 1] = "}"
             THEN [matched |-> TRUE, name |-> SubSeq(text, 3, e),
                   given |-> FALSE, default |-> <<>>]
             ELSE NoMatch
    ELSE NoMatch

\* The names a table of substitutes may bind, and the tables: a name is not
\* a key ("unbound") or is bound to a text ("v") or to None ("none").
Names == {<<"a">>, <<"a", "1">>}
Tables == [Names -> {"unbound", "v", "none"}]

\* What loading a scalar gives: an error; or the value the table has for a
\* name, a text, or None.
Substituted(kind, value, text) ==
    [raised |-> kind = "raised", kind |-> kind, value |-> value,
     text |-> text]

\* TestLoader.construct_substitute: self.substitutes.get(name, default).
construct_substitute(substitutes, text) ==
    LET match == substitute_re(text)
    IN  IF ~match.matched THEN Substituted("raised", "", <<>>)
        ELSE IF match.name \in Names /\ substitutes[match.name] /= "unbound"
        THEN Substituted("table", substitutes[match.name], <<>>)
        ELSE IF match.given THEN Substituted("text", "", match.default)
        ELSE Substituted("none", "", <<>>)

\* The scalars of at most n characters after the given start.
RECURSIVE ScalarsFrom(_, _)
ScalarsFrom(start, n) ==
    IF n = 0 THEN {start}
    ELSE LET shorter == ScalarsFrom(start, n - 1)
         IN  shorter \cup {Append(text, c) : text \in shorter,
                                             c \in Characters}

\* The loader meets a scalar: one with the tag !substitute, which the
\* implicit resolver gives a plain scalar that substitute_re matches, goes
\* to construct_substitute; any other is the text it holds.
TestLoader_construct_scalar ==
    /\ Idle
    /\ \E substitutes \in Tables, tagged \in BOOLEAN,
          start \in {<<"$", "{">>, <<"a">>} :
         \E text \in ScalarsFrom(start, MaxScalar) :
            Calls([op |-> "scalar", substitutes |-> substitutes,
                   tagged |-> tagged, text |-> text,
                   result |-> IF tagged \/ substitute_re(text).matched
                              THEN construct_substitute(substitutes, text)
                              ELSE Substituted("text", "", text)])

InitRecord ==
    /\ NotRun
    /\ state = State(NoVariables)
    /\ selection = Selection_init({})

NextRecord ==
    \/ Record_recognizes
    \/ TestLoader_construct_yaml_map
    \/ Record_load
    \/ Record_dump
    \/ Record_reload
    \/ Record_complements
    \/ TestLoader_construct_scalar

SpecRecord == InitRecord /\ [][NextRecord]_vars

\* The keys of the required fields of a record type.
RequiredKeys(S) ==
    {S.fields[i].key : i \in {j \in 1..Len(S.fields) :
                                S.fields[j].required}}

\* C15 as stated: every registered Input or Output type recognizes a set
\* of keys exactly when it declares a required field and the set holds the
\* key of each of its required fields.
C15_AllRequired ==
    call.op = "recognizes" =>
        (call.result <=> /\ RequiredKeys(call.schema) /= {}
                         /\ RequiredKeys(call.schema) \subseteq call.keys)

\* C15, amended: every registered Input or Output type other than
\* SuiteCase.Input recognizes a set of keys exactly when it declares a
\* required field and the set holds the key of each of its required
\* fields; SuiteCase.Input recognizes a set of keys exactly when `tests`
\* is among them.
C15_Recognizes ==
    call.op = "recognizes" =>
        IF call.schema = InputOf("SuiteCase")
        THEN call.result <=> "tests" \in call.keys
        ELSE call.result <=> /\ RequiredKeys(call.schema) /= {}
                             /\ RequiredKeys(call.schema) \subseteq call.keys

\* SuiteCase.Input has recognized keys with `tests` and without `title`,
\* which it requires.
C15_Witness ==
    /\ call.op = "recognizes"
    /\ call.schema = InputOf("SuiteCase")
    /\ call.keys = {"tests", "skip"}
    /\ call.result

\* A type with two required fields has turned down keys that hold one of
\* them only.
C15_OneOfTwo ==
    /\ call.op = "recognizes"
    /\ call.schema = InputOf("WriteToFileCase")
    /\ call.keys = {"write", "skip"}
    /\ ~call.result

\* The types of a list that recognize the keys, by position.
Recognizing(record_types, keys) ==
    {i \in 1..Len(record_types) : recognizes(record_types[i], keys)}

\* C16: for a mapping met where a record is expected, the loader selects
\* the type registered earliest, in the list of Input types or of Output
\* types it was given, among those that recognize the keys, and none when
\* no type recognizes them.
C16_EarliestRegistered ==
    call.op = "detect" =>
        LET hits == Recognizing(call.record_types, call.keys)
        IN  IF hits = {} THEN call.result = NoSchema
            ELSE \E i \in hits :
                   /\ call.result = call.record_types[i]
                   /\ \A j \in hits : i <= j

\* Both IncludeCase.Input and CoverageCase.Input recognize the keys
\* `coverage` and `include`: the loader has selected the one registered
\* first.
C16_Witness ==
    /\ call.op = "detect"
    /\ call.record_types = input_types
    /\ call.keys = {"coverage", "include"}
    /\ Cardinality(Recognizing(input_types, call.keys)) = 2
    /\ call.result = InputOf("IncludeCase")

\* The value a record holds in the first required field of its type that
\* is a required field of the other type too; the two records agree on it.
FirstCommon(S, T) ==
    CHOOSE i \in Common(S, T) : \A j \in Common(S, T) : i <= j

AgreeOnFirstCommon(S, record, T, other) ==
    /\ Common(S, T) /= {}
    /\ equals(record[FirstCommon(S, T)],
              getattr(T, other, S.fields[FirstCommon(S, T)].attr))

\* C17 as stated: a record complements another exactly when the two have
\* the same owner, different roles, and equal values in the first required
\* field both types declare.
C17_FirstCommonField ==
    call.op = "complements" =>
        (call.result <=>
            /\ call.schema.owner = call.other_schema.owner
            /\ call.schema.role /= call.other_schema.role
            /\ AgreeOnFirstCommon(call.schema, call.record,
                                  call.other_schema, call.other))

\* C17, amended: a record a of a registered type other than
\* SuiteCase.Input and PythonCase.Input complements a record b exactly
\* when the two have the same owner, different roles, and equal values in
\* the first required field both types declare; a SuiteCase.Input record
\* complements b exactly when b is a SuiteCase.Output record with the same
\* `suite`; a PythonCase.Input record complements b exactly when b is a
\* PythonCase.Output record whose `py` is the `py` of a when that is a file
\* name and the identifier made from it otherwise.  No record complements
\* a record of another owner.
C17_Complements ==
    call.op = "complements" =>
        LET S == call.schema
            T == call.other_schema
        IN  /\ S.owner /= T.owner => ~call.result
            /\ IF S = InputOf("SuiteCase")
               THEN call.result <=>
                      /\ T = OutputOf("SuiteCase")
                      /\ equals(getattr(S, call.record, "suite"),
                                getattr(T, call.other, "suite"))
               ELSE IF S = InputOf("PythonCase")
               THEN call.result <=>
                      /\ T = OutputOf("PythonCase")
                      /\ LET py == getattr(S, call.record, "py")
                             key == IF is_filename(py.v) THEN py.v
                                    ELSE to_identifier(py.v)
                         IN  getattr(T, call.other, "py") = StrV(key)
               ELSE call.result <=>
                      /\ S.owner = T.owner
                      /\ S.role /= T.role
                      /\ AgreeOnFirstCommon(S, call.record, T, call.other)

\* A PythonCase.Input record holding source code complements the output
\* that holds the identifier made from the code.
C17_Witness ==
    /\ call.op = "complements"
    /\ call.schema = InputOf("PythonCase")
    /\ call.other_schema = OutputOf("PythonCase")
    /\ getattr(InputOf("PythonCase"), call.record, "py") = StrV("A b")
    /\ getattr(OutputOf("PythonCase"), call.other, "py") = StrV("a-b")
    /\ call.result

\* A SuiteCase.Input record complements an output with the same `suite`
\* and other `tests`.
C17_SameSuite ==
    /\ call.op = "complements"
    /\ call.schema = InputOf("SuiteCase")
    /\ call.other_schema = OutputOf("SuiteCase")
    /\ getattr(InputOf("SuiteCase"), call.record, "tests")
         /= getattr(OutputOf("SuiteCase"), call.other, "tests")
    /\ call.result

\* Records of two owners agree on a required field both types declare and
\* do not complement each other.
C17_OwnersDiffer ==
    /\ call.op = "complements"
    /\ call.schema = OutputOf("ShellCase")
    /\ call.other_schema = OutputOf("PythonCase")
    /\ AgreeOnFirstCommon(call.schema, call.record,
                          call.other_schema, call.other)
    /\ ~call.result

\* An input and the output of its case that agree on the common required
\* field complement each other, by the rule of TestRecord.
C17_Generic ==
    /\ call.op = "complements"
    /\ call.schema = InputOf("ReadFromFileCase")
    /\ call.other_schema = OutputOf("ReadFromFileCase")
    /\ call.result

\* The record types whose __load__ is MatchCase.Input.__load__.
MatchCaseInputs ==
    {InputOf("PythonCase"), InputOf("ShellCase"),
     InputOf("ReadFromFileCase")}

\* C18: round trip; for every record of every registered type, loaded or
\* built directly from values its checks allow, loading the mapping made
\* of what the record dumps succeeds and gives a record equal to it.
C18_RoundTrip ==
    call.op = "reload" =>
        /\ ~call.result.raised
        /\ Record_eq(call.schema, call.result.record,
                     call.schema, call.record)

\* The round trip of a PythonCase.Input record built directly has raised
\* TypeError.
C18_SuperRaises ==
    /\ call.op = "reload"
    /\ call.schema = InputOf("PythonCase")
    /\ call.result.raised
    /\ call.result.exc = "TypeError"

\* The round trip of a SuiteCase.Input record built without `suite` has
\* given a record with the `suite` made from its title.
C18_SuiteDerived ==
    /\ call.op = "reload"
    /\ call.schema = InputOf("SuiteCase")
    /\ ~call.loaded
    /\ getattr(InputOf("SuiteCase"), call.record, "suite") = NoneV
    /\ ~call.result.raised
    /\ getattr(InputOf("SuiteCase"), call.result.record, "suite") = StrV("a-b")

\* The round trip holds of the record types that inherit
\* TestRecord.__load__, and of the SuiteCase.Input records that were
\* loaded.
C18_RoundTripElsewhere ==
    /\ call.op = "reload"
    /\ call.schema \notin MatchCaseInputs
    /\ call.schema = InputOf("SuiteCase") => call.loaded
    => /\ ~call.result.raised
       /\ Record_eq(call.schema, call.result.record,
                    call.schema, call.record)

\* A record with a required field that holds None, and with an optional
\* field that holds its default, has come back equal from the round trip.
C18_Elsewhere ==
    /\ call.op = "reload"
    /\ call.schema = InputOf("CoverageCase")
    /\ getattr(InputOf("CoverageCase"), call.record, "coverage") = NoneV
    /\ ~call.result.raised
    /\ Record_eq(call.schema, call.result.record, call.schema, call.record)

\* The pairs are those of the fields `emitted` of the record, in the order
\* of declaration: the n-th pair is that of the n-th emitted field.
PairsOf(S, record, emitted, pairs) ==
    /\ Len(pairs) = Cardinality(emitted)
    /\ \A i \in emitted :
          pairs[Cardinality({j \in emitted : j < i}) + 1]
            = <<S.fields[i].key, record[i]>>

\* The fields of a record whose value differs from the default.
Changed(S, record) ==
    {i \in 1..Len(S.fields) : ~equals(record[i], S.fields[i].default)}

\* The required fields of a record type.
Required(S) == {i \in 1..Len(S.fields) : S.fields[i].required}

\* C19 as stated: __dump__ returns the (key, value) pairs of exactly the
\* fields whose value differs from the default of the field, in the order
\* of declaration.
C19_OnlyChanged ==
    call.op = "dump" =>
        PairsOf(call.schema, call.record,
                Changed(call.schema, call.record), call.result)

\* C19, amended: __dump__ returns the (key, value) pairs of every required
\* field and of exactly those optional fields whose value differs from the
\* default of the field, in the order of declaration; an optional field
\* whose value equals its default is never emitted.
C19_Dump ==
    call.op = "dump" =>
        PairsOf(call.schema, call.record,
                Required(call.schema) \cup Changed(call.schema, call.record),
                call.result)

\* A CoverageCase.Input record whose required `coverage` is None, the
\* default test_type gives a required field, is dumped with `coverage` and
\* one optional field, the optional fields at their defaults left out.
C19_Witness ==
    /\ call.op = "dump"
    /\ call.schema = InputOf("CoverageCase")
    /\ getattr(InputOf("CoverageCase"), call.record, "coverage") = NoneV
    /\ Len(call.result) = 2
    /\ call.result[1] = <<"coverage", NoneV>>

\* An optional field that holds False where its default is 0 is left out.
C19_EqualNotSame ==
    /\ call.op = "dump"
    /\ call.schema = InputOf("ShellCase")
    /\ getattr(InputOf("ShellCase"), call.record, "exit") = BoolV("false")
    /\ \A n \in 1..Len(call.result) : call.result[n][1] /= "exit"

\* What may be wrong with a mapping given to S.__load__: the key of a
\* required field is not there, a value does not pass the check of its
\* field, a key is that of no field of S.
Missing(S, mapping) == RequiredKeys(S) \ DOMAIN mapping

Invalid_keys(S, mapping) ==
    {key \in DOMAIN mapping \cap KeysOf(S) :
       ~isinstance(mapping[key], FieldOf(S, key).check)}

Unknown(S, mapping) == DOMAIN mapping \ KeysOf(S)

\* The statement of C20 about one call of __load__.
Loads(S, mapping, result) ==
    /\ ~result.raised <=> /\ Missing(S, mapping) = {}
                          /\ Invalid_keys(S, mapping) = {}
                          /\ Unknown(S, mapping) = {}
    /\ ~result.raised =>
          /\ Len(result.record) = Len(S.fields)
          /\ \A i \in 1..Len(S.fields) :
                result.record[i] = IF S.fields[i].key \in DOMAIN mapping
                                   THEN mapping[S.fields[i].key]
                                   ELSE S.fields[i].default
    /\ /\ Missing(S, mapping) = {}
       /\ Invalid_keys(S, mapping) = {}
       /\ Unknown(S, mapping) /= {}
       => /\ result.raised
          /\ result.what = "unknown field"
          /\ result.key \in Unknown(S, mapping)
          /\ \A i, j \in 1..Len(SortedKeys) :
                /\ SortedKeys[i] = result.key
                /\ SortedKeys[j] \in Unknown(S, mapping)
                => i <= j
    /\ result.raised => result.record = <<>>

\* C20: for every record type and mapping, __load__ succeeds exactly when
\* the key of every required field is present, every supplied value passes
\* the check of its field and no key is outside the type; on success each
\* field holds the supplied value or else its default; when unknown keys
\* are the only defect the error names the smallest of them; on failure no
\* record is produced.
C20_Load ==
    call.op = "load" => Loads(call.schema, call.mapping, call.result)

\* PythonCase.Input.__load__ of a mapping with nothing wrong has raised
\* TypeError.
C20_SuperRaises ==
    /\ call.op = "load"
    /\ call.schema = InputOf("PythonCase")
    /\ call.mapping = [key \in {"py"} |-> StrV("a-b")]
    /\ call.result.raised
    /\ call.result.exc = "TypeError"

\* SuiteCase.Input.__load__ of a mapping without `suite` has given a
\* record whose `suite` is neither supplied nor the default.
C20_SuiteDerived ==
    /\ call.op = "load"
    /\ call.schema = InputOf("SuiteCase")
    /\ "suite" \notin DOMAIN call.mapping
    /\ ~call.result.raised
    /\ getattr(InputOf("SuiteCase"), call.result.record, "suite") = StrV("a-b")

\* The statement holds of the record types that inherit
\* TestRecord.__load__.
C20_LoadElsewhere ==
    /\ call.op = "load"
    /\ call.schema \notin MatchCaseInputs \cup {InputOf("SuiteCase")}
    => Loads(call.schema, call.mapping, call.result)

\* A mapping whose only defect is two unknown keys has been turned down
\* with the smaller of them.
C20_SmallestUnknown ==
    /\ call.op = "load"
    /\ call.schema = InputOf("SetCase")
    /\ Unknown(call.schema, call.mapping) = {"aa", "zz"}
    /\ call.result.raised
    /\ call.result.key = "aa"

\* A mapping with a missing field, or an invalid one, and an unknown key
\* has been turned down with the field.
C20_FieldFirst ==
    /\ call.op = "load"
    /\ call.schema = InputOf("WriteToFileCase")
    /\ Unknown(call.schema, call.mapping) /= {}
    /\ call.result.raised
    /\ call.result.what \in {"missing field", "invalid field"}

----------------------------------------------------------------------------
(* Properties of a run of the harness that halts, and of what it reports    *)
(* and writes (Spec).                                                       *)

\* The suite on top, in a training run that was halted, is about to build
\* its output.
HaltedSuite == Finishing /\ training /\ halted

\* The new outputs the cases of a suite handed to it: those recorded by
\* its snippets, and the records its nested suites and includes built
\* around what was recorded in them.
NewOutputs(f) ==
    {f.new_case_output_map[i].out :
       i \in {j \in 1..Len(f.cases) : /\ f.new_case_output_map[j].has
                                       /\ f.new_case_output_map[j].out /= None}}

\* Control.__call__ is about to report and save, the root case having
\* returned.
Reporting ==
    /\ pc = "run"
    /\ stack /= <<>>
    /\ Top.kind = "ctl"
    /\ Top.pc = "finish"

C21_Threshold ==
    /\ pc = "done"
    /\ training
    /\ halted
    /\ io.halts = 0
    /\ update_num > 0
    /\ io.summary
    /\ io.dumps > 0
    /\ new_output /= None
    /\ files["root.yaml"] = new_output

\* C22 as stated: every run that reaches the end of Control.__call__ shows
\* the line with the passed, updated and failed counts, also when the three
\* counters are zero.
C22_AlwaysSummary ==
    pc = "done" => io.summary

\* C22, amended: a run that reaches the end of Control.__call__ shows the
\* line with the passed, updated and failed counts exactly when one of the
\* three counters is not zero; with the three at zero no such line is
\* shown.
C22_SummaryIfCounted ==
    pc = "done" =>
        (io.summary <=> success_num + update_num + failure_num > 0)

\* A run over a suite whose only case was skipped has ended with nothing
\* counted and no line shown.
C22_Witness ==
    /\ pc = "done"
    /\ Len(input_doc.tests) = 1
    /\ input_doc.tests[1].skip
    /\ success_num = 0
    /\ update_num = 0
    /\ failure_num = 0
    /\ ~io.summary

\* A run has ended with the line shown.
C22_Counted ==
    /\ pc = "done"
    /\ success_num > 0
    /\ failure_num > 0
    /\ io.summary

----------------------------------------------------------------------------
(* Properties of the substitution of scalars (SpecRecord).                  *)

\* The scalar ${name}, and the scalar ${name:default}.
Plain(name) == <<"$", "{">> \o name \o <<"}">>
WithDefault(name, default) ==
    <<"$", "{">> \o name \o <<":">> \o default \o <<"}">>

\* Names and default texts that substitute_re admits.
TriedNames == {<<"a">>, <<"a", "1">>, <<"a", "-">>, <<"a", "a">>}
TriedDefaults == {<<>>, <<"a">>, <<"1">>, <<":">>, <<"-", "a">>}

\* Loading gave what the table has for the name, else the default, else
\* None.
Resolved(substitutes, name, given, default, result) ==
    /\ ~result.raised
    /\ IF name \in Names /\ substitutes[name] /= "unbound"
       THEN result.kind = "table" /\ result.value = substitutes[name]
       ELSE IF given
       THEN result.kind = "text" /\ result.text = default
       ELSE result.kind = "none"

\* C23: for every scalar ${name} or ${name:default} and every table,
\* loading yields table[name] when the name is bound, otherwise the default
\* text when one is given, otherwise None; an unbound name raises no error.
C23_Substitute ==
    call.op = "scalar" =>
        \A name \in TriedNames :
            /\ call.text = Plain(name)
                 => Resolved(call.substitutes, name, FALSE, <<>>, call.result)
            /\ \A default \in TriedDefaults :
                 call.text = WithDefault(name, default)
                   => Resolved(call.substitutes, name, TRUE, default,
                               call.result)

\* ${a1} was loaded with a table that does not bind a1: None.
C23_Witness ==
    /\ call.op = "scalar"
    /\ call.text = Plain(<<"a", "1">>)
    /\ call.substitutes[<<"a", "1">>] = "unbound"
    /\ call.substitutes[<<"a">>] = "v"
    /\ ~call.tagged
    /\ call.result.kind = "none"

\* ${a:} was loaded with a table that does not bind a: the empty text.
C23_EmptyDefault ==
    /\ call.op = "scalar"
    /\ call.text = WithDefault(<<"a">>, <<>>)
    /\ call.substitutes[<<"a">>] = "unbound"
    /\ call.result.kind = "text"
    /\ call.result.text = <<>>

\* ${a:1} was loaded with a table that binds a: the value of the table.
C23_Bound ==
    /\ call.op = "scalar"
    /\ call.text = WithDefault(<<"a">>, <<"1">>)
    /\ call.substitutes[<<"a">>] = "v"
    /\ call.result.kind = "table"
    /\ call.result.value = "v"

\* A scalar whose default holds a character outside the class of
\* substitute_re is no substitution: it is loaded as its text, and raises
\* "invalid substitution" when it has the tag.
C23_NoSubstitution ==
    /\ call.op = "scalar"
    /\ call.text = <<"$", "{", "a", ":", " ", "}">>
    /\ call.substitutes[<<"a">>] = "v"
    /\ IF call.tagged THEN call.result.raised
       ELSE call.result.kind = "text" /\ call.result.text = call.text

----------------------------------------------------------------------------
(* Properties of what is written to output files (Spec).                   *)

\* The file a step that calls dump_output writes: the output path of the
\* run at the end of Control.__call__, the file of the suite otherwise.
WrittenPath == IF Top.kind = "ctl" THEN output_path ELSE Top.input.output

\* C24: dump_output is only ever called with an Output record, never with
\* None; a suite that names an output file and whose reconciled list is
\* empty writes nothing to that file.
C24_NeverDumpsNone ==
    [][pc = "run" /\ stack /= <<>> /\ io'.dumps = io.dumps + 1
         => files'[WrittenPath] /= NullDoc]_vars

\* A suite with an output file and an empty reconciled list has written the
\* null document to a file that did not exist.
C24_NullWritten ==
    /\ pc = "done"
    /\ training
    /\ io.dumped_none
    /\ \E path \in Paths : files[path] = NullDoc
    /\ failure_num > 0
    /\ update_num = 0

\* The save at the end of Control.__call__ writes a record, and a suite
\* whose reconciled list is not empty writes a record.
C24_RecordsElsewhere ==
    [][pc = "run" /\ stack /= <<>> /\ io'.dumps = io.dumps + 1
       /\ \/ Top.kind = "ctl"
          \/ train_tests(Top.output, Top.cases, Top.new_case_output_map,
                         purging, halted) /= <<>>
         => files'[WrittenPath] \notin {None, NullDoc}]_vars

----------------------------------------------------------------------------
(* Properties of a training run repeated (SpecRetrain).                    *)

\* The present run repeats a training run that the operator did not halt
\* and in which every change was recorded and saved.
Repeating ==
    /\ io.earlier /= <<>>
    /\ io.earlier[1].accepted
    /\ io.earlier[1].halts = 0

\* The step runs a snippet without asking whether to record: it produced
\* nothing, or what was expected.
NoRecordPrompt ==
    \/ behaviour'[Cur.input.key] = Fails
    \/ success_num' = success_num + 1

\* The step of a suite reuses the prior Output object, its list unchanged.
Reused ==
    LET tests == train_tests(Top.output, Top.cases, Top.new_case_output_map,
                             purging, halted)
    IN  /\ tests = TestsOf(Top.output)
        /\ suite_output(Top.input, Top.output, tests) = Top.output

\* C25: a training run repeated at once after one in which every change
\* was recorded and saved loads its outputs, reports no updated case,
\* issues no record or save prompt and writes no file: the reconciled list
\* of each suite equals its prior list and the prior Output is reused.
C25_Idempotent ==
    /\ [](Repeating => /\ pc /= "raised"
                       /\ update_num = 0
                       /\ io.prompts = 0
                       /\ io.dumps = 0)
    /\ [][Repeating /\ Calling("py") => NoRecordPrompt]_vars
    /\ [][Repeating /\ Finishing => Reused /\ files' = files]_vars

\* The first training saved a nested suite with an empty list, writing
\* None to its file; the second raises when it loads that file.
C25_SecondRaises ==
    /\ Repeating
    /\ io.earlier[1].dumped_none
    /\ pc = "raised"
    /\ files["sub.yaml"] = NullDoc

\* The same holds of every repeated run whose first run wrote None to no
\* file.
C25_IdempotentElsewhere ==
    /\ [](Repeating /\ ~io.earlier[1].dumped_none
            => /\ pc /= "raised"
               /\ update_num = 0
               /\ io.prompts = 0
               /\ io.dumps = 0)
    /\ [][Repeating /\ ~io.earlier[1].dumped_none /\ Calling("py")
            => NoRecordPrompt]_vars
    /\ [][Repeating /\ ~io.earlier[1].dumped_none /\ Finishing
            => Reused /\ files' = files]_vars

\* A repeated run is over, after a first run that recorded two outputs in
\* the root file and one in the file of the nested suite.
C25_Repeated ==
    /\ Repeating
    /\ pc = "done"
    /\ ~io.earlier[1].dumped_none
    /\ success_num = 3
    /\ files["root.yaml"] /= None
    /\ files["sub.yaml"] \notin {None, NullDoc}

----------------------------------------------------------------------------
(* Properties of the update of the original output data (SpecSuite).       *)

\* The cases of the frame that had no prior output and produced one.
Producing(f) ==
    {i \in 1..Len(f.cases) : /\ f.cases[i].output = None
                             /\ f.new_case_output_map[i].has
                             /\ f.new_case_output_map[i].out /= None}

\* The new outputs of the cases matched to the j-th prior entry.
NewFor(f, j) ==
    {f.new_case_output_map[i].out :
       i \in {k \in 1..Len(f.cases) : /\ f.cases[k].ref = j - 1
                                      /\ f.new_case_output_map[k].has
                                      /\ f.new_case_output_map[k].out /= None}}

\* The j-th smallest of a set of positions.
Nth(positions, j) ==
    CHOOSE x \in positions : Cardinality({y \in positions : y <= x}) = j

\* Some positions of the list, as many as there were prior entries, hold
\* in order the prior entries or what replaced them, and the others hold
\* what the producing cases returned.
KeepsPrior(f, list) ==
    LET prior == TestsOf(f.output)
    IN  \E positions \in SUBSET (1..Len(list)) :
          /\ Cardinality(positions) = Len(prior)
          /\ \A j \in 1..Len(prior) :
               list[Nth(positions, j)] \in {prior[j]} \cup NewFor(f, j)
          /\ \A k \in (1..Len(list)) \ positions :
               list[k] \in {f.new_case_output_map[i].out : i \in Producing(f)}

\* C26: without purge the reconciled list, its inserted outputs removed,
\* has the length of the prior list and holds at each position the prior
\* entry or the new output of the case matched to it; its length is that of
\* the prior list plus the number of cases that had no prior output and
\* produced one.
C26_PriorKept ==
    [][RootFinishing /\ ~purging
        => /\ KeepsPrior(Top, TestsOf(ReturnedNow))
           /\ Len(TestsOf(ReturnedNow))
                = Len(TestsOf(Top.output)) + Cardinality(Producing(Top))]_vars

\* Prior outputs 1, 2, 3 and cases 4, 3, 1: the case 4 produced an output,
\* the case 3 a changed one, the case 1 the expected one, and the list is
\* 4', 1, 2, 3'.
C26_Witness ==
    /\ RootReturned
    /\ ~purging
    /\ ~halted
    /\ OutputKeys(prior_output) = <<1, 2, 3>>
    /\ InputKeys(input_doc) = <<4, 3, 1>>
    /\ RootOutput = SuiteOutput(RootId, <<CaseOutput(4, 2), CaseOutput(1, 1),
                                          CaseOutput(2, 1), CaseOutput(3, 2)>>)

----------------------------------------------------------------------------
(* Properties of MatchCase.check and MatchCase.train (SpecMatch).          *)

\* The step calls a snippet that is not skipped.
Executing == Calling("py") /\ ~skipped(Cur.input)

\* The step calls such a snippet and the call returns: run(), if called,
\* gave None or an output.
Completing == Executing /\ pc' /= "raised"

\* What run() gives in the step, Fails for None.
RunResult == behaviour'[Cur.input.key]

\* The output of the step is new, or differs from the expected one once
\* what `ignore` names is erased: `ignore: true` erases everything.
NewOrChanged ==
    /\ RunResult /= Fails
    /\ \/ Cur.output = None
       \/ ~Cur.input.ignore /\ Cur.output.val /= RunResult

\* C27: in training a snippet returns its new output only when it is new
\* or differs after normalization and the operator records it, counted as
\* updated; on a None result, an output identical once `ignore` is applied,
\* skip or halt, it returns the expected output; halt sets the halted flag.
C27_Train ==
    [][Completing /\ training
        => /\ CaseReturnedNow \in {Cur.output,
                                   PyOutput(Cur.input.key, RunResult)}
           /\ CaseReturnedNow /= Cur.output
                => NewOrChanged /\ update_num' = update_num + 1
           /\ update_num' /= update_num => CaseReturnedNow /= Cur.output
           /\ ~NewOrChanged => CaseReturnedNow = Cur.output
           /\ io'.halts = io.halts + 1 => halted']_vars

\* A training run is over in which a snippet with `ignore: true` and the
\* expected output 1 printed 2: it passed and the output was kept.
C27_Witness ==
    /\ pc = "done"
    /\ training
    /\ Len(input_doc.tests) = 2
    /\ input_doc.tests[1].ignore
    /\ ~input_doc.tests[2].ignore
    /\ prior_output /= None
    /\ behaviour[1] = 2
    /\ behaviour[2] = 2
    /\ success_num = 1
    /\ update_num = 1
    /\ new_output = SuiteOutput(RootId, <<PyOutput(1, 1), PyOutput(2, 2)>>)

\* A training run is over that the operator halted at a changed output:
\* nothing was recorded.
C27_Halted ==
    /\ pc = "done"
    /\ training
    /\ halted
    /\ io.halts = 1
    /\ prior_output /= None
    /\ behaviour[1] = 2
    /\ failure_num = 1
    /\ update_num = 0
    /\ new_output = prior_output

\* The expected output and the output of the step do not match: run()
\* gave None, or the texts differ once what `ignore` names is erased.
Mismatch ==
    \/ RunResult = Fails
    \/ ~Cur.input.ignore /\ Cur.output.val /= RunResult

\* C28: in checking mode a snippet with no expected output is counted
\* failed and run() is not called; with an expected output run() is called
\* exactly once, and the snippet is failed on a None result or a mismatch
\* after normalization, passed otherwise.
C28_Check ==
    [][Completing /\ ~training
        => /\ update_num' = update_num
           /\ IF Cur.output = None
              THEN /\ io'.runs = io.runs
                   /\ behaviour' = behaviour
                   /\ failure_num' = failure_num + 1
                   /\ success_num' = success_num
              ELSE /\ io'.runs = io.runs + 1
                   /\ IF Mismatch
                      THEN /\ failure_num' = failure_num + 1
                           /\ success_num' = success_num
                      ELSE /\ success_num' = success_num + 1
                           /\ failure_num' = failure_num]_vars

\* A checking run with no expected output is over: three snippets were
\* started and failed, none was run.
C28_Witness ==
    /\ pc = "done"
    /\ ~training
    /\ prior_output = None
    /\ Len(input_doc.tests) = 3
    /\ io.starts = 4
    /\ io.runs = 0
    /\ failure_num = 3
    /\ success_num = 0
    /\ \A k \in DOMAIN behaviour : behaviour[k] = Undetermined

\* A checking run with expected outputs is over: the first snippet printed
\* another text and failed, the second, with `ignore: true`, printed
\* another text and passed, the third printed nothing and failed.
C28_Compared ==
    /\ pc = "done"
    /\ ~training
    /\ prior_output /= None
    /\ Len(input_doc.tests) = 3
    /\ ~input_doc.tests[1].ignore
    /\ input_doc.tests[2].ignore
    /\ behaviour[1] = 2
    /\ behaviour[2] = 2
    /\ behaviour[3] = Fails
    /\ io.runs = 3
    /\ failure_num = 2
    /\ success_num = 1

------------------------------------------------------------

----------------------------------------------------------------------------
(* Properties of the counters of a run (SpecMatch, Spec).                  *)

\* The counters after the step, and before it.
CountersAfter == <<success_num', failure_num', update_num'>>
CountersBefore == <<success_num, failure_num, update_num>>

\* One of the counters is incremented by 1 in the step of an execution,
\* none in any other step.
OneCounter ==
    IF Executing
    THEN CountersAfter \in
           {<<success_num + 1, failure_num, update_num>>,
            <<success_num, failure_num + 1, update_num>>,
            <<success_num, failure_num, update_num + 1>>}
    ELSE CountersAfter = CountersBefore

\* C29: each execution of a produce-and-compare case that is not skipped
\* increments exactly one of success_num, failure_num, update_num, by 1,
\* in both modes and for every reply of the operator; no other step (a
\* suite, an include, a skipped case, Control.__call__) changes a counter,
\* so their sum is the number of executions completed.
C29_OneCounter == [][OneCounter]_vars

\* A training run has executed a snippet, recorded, and then a PythonCase
\* whose file is missing: run() raised and no counter moved.
C29_RaisedUncounted ==
    /\ pc = "raised"
    /\ training
    /\ Len(input_doc.tests) = 2
    /\ py_as_filename(input_doc.tests[2])
    /\ io.starts = 3
    /\ io.runs = 2
    /\ success_num + failure_num + update_num = 1

\* The same of every step in which no exception leaves the case; this
\* holds of the harness with nested suites, includes and skipped cases
\* (Spec) as well.
C29_OneCounterUnlessRaised == [][pc' /= "raised" => OneCounter]_vars

\* A training run over three snippets is over: one passed, one was
\* recorded, one failed.
C29_Counted ==
    /\ pc = "done"
    /\ training
    /\ Len(input_doc.tests) = 3
    /\ io.runs = 3
    /\ success_num = 1
    /\ failure_num = 1
    /\ update_num = 1

----------------------------------------------------------------------------
(* Properties of a case whose behaviour fails (SpecMatch).                 *)

\* The step calls a case of the suite that is not skipped.
Behaving ==
    /\ pc = "run"
    /\ stack /= <<>>
    /\ Top.kind = "suite"
    /\ Top.pc = "loop"
    /\ ~skipped(Cur.input)

\* After the step the suite is about to call the sibling that follows, if
\* there is one and the run is not halted.
SiblingsGoOn ==
    ~halted' /\ Top.idx < Len(Top.cases)
      => /\ pc' = "run"
         /\ Len(stack') = Len(stack)
         /\ stack'[Len(stack)].pc = "loop"
         /\ stack'[Len(stack)].idx = Top.idx + 1

\* C30: a failure of the behaviour of a case, an exception raised while it
\* executes included, is captured at the case: it is counted once in
\* failure_num and no exception leaves the loop of the enclosing suite, so
\* the siblings that remain still run unless the run is halted.
C30_Captured ==
    [][Behaving
        => /\ pc' /= "raised"
           /\ Cur.input.owner = "py" /\ RunResult = Fails
                => failure_num' = failure_num + 1
           /\ SiblingsGoOn]_vars

\* A WriteToFileCase, the first of three cases, could not create its
\* file: the exception left the suite and Control.__call__, no failure was
\* counted and the two siblings were never started.
C30_Propagated ==
    /\ pc = "raised"
    /\ stack = <<>>
    /\ Len(input_doc.tests) = 3
    /\ input_doc.tests[1].owner = "write"
    /\ io.starts = 2
    /\ io.runs = 0
    /\ failure_num = 0
    /\ ~io.summary

\* A behaviour that fails by giving None (an exception inside a snippet is
\* caught by PythonCase.run, which then returns None) is counted once and
\* the siblings go on.
C30_NoneCaptured ==
    [][Behaving /\ pc' /= "raised"
        => /\ Cur.input.owner = "py" /\ RunResult = Fails
                => failure_num' = failure_num + 1
           /\ SiblingsGoOn]_vars

\* A checking run is over whose first snippet gave None: it was counted
\* failed and the two siblings ran.
C30_SiblingsRan ==
    /\ pc = "done"
    /\ ~training
    /\ Len(input_doc.tests) = 3
    /\ behaviour[1] = Fails
    /\ io.runs = 3
    /\ failure_num = 1
    /\ success_num = 2

----------------------------------------------------------------------------
(* C31: when a case is skipped.                                            *)

\* A step that calls the case the frame on top has reached, a suite being
\* called only if the selection contains it.
Dispatching ==
    /\ pc = "run"
    /\ stack /= <<>>
    /\ Top.pc = "loop"
    /\ stack' /= stack
    /\ Cur.input.owner = "suite" => contains(selection, Cur.input.key)

\* The case called in the step is skipped: start() is not called.
NotStarted == io'.starts = io.starts

\* A condition is satisfied: a list of keys, or one identifier taken as a
\* list of one key, if at least one key has a true value among the
\* conditional variables, a key that is missing counting as false; any
\* other string if it evaluates to true.
Satisfied(condition) ==
    IF condition.kind = "list"
    THEN \E key \in condition.keys : state.map[key] = "true"
    ELSE evaluate(condition, state) = "true"

\* The evaluation of the condition raises an exception.
Raises(condition) ==
    condition.kind \in {"expr", "invalid"}
      /\ evaluate(condition, state) = "raises"

\* C31 as it is stated: a case is skipped if and only if skip is true, or
\* `if` is given and not satisfied, or `unless` is given and satisfied.
C31_SkippedIff ==
    [][Dispatching
        => (NotStarted
              <=> LET input == Cur.input
                  IN  \/ input.skip
                      \/ input.if_.kind /= "none" /\ ~Satisfied(input.if_)
                      \/ input.unless.kind /= "none"
                            /\ Satisfied(input.unless))]_vars

\* C31, amended: a case is skipped if and only if skip is true, or `if` is
\* given and not satisfied, or `unless` is given and satisfied, or the
\* evaluation of an `if` or `unless` expression raises an exception; a
\* list of keys, or a single identifier, is satisfied iff at least one key
\* is true in State, a missing key counting as false, and any other string
\* is evaluated as a boolean expression over State.
C31_SkippedIffOrRaises ==
    [][Dispatching
        => (NotStarted
              <=> LET input == Cur.input
                  IN  \/ input.skip
                      \/ /\ input.if_.kind /= "none"
                         /\ ~Satisfied(input.if_) \/ Raises(input.if_)
                      \/ /\ input.unless.kind /= "none"
                         /\ Satisfied(input.unless)
                              \/ Raises(input.unless))]_vars

\* A snippet with `unless: [a, b]` was skipped while a was false and b
\* true, and the run went on to the next case.
C31_Witness ==
    /\ pc = "run"
    /\ Len(stack) = 2
    /\ Top.idx = 3
    /\ Top.cases[2].input.owner = "py"
    /\ Top.cases[2].input.unless = AnyOf({"a", "b"})
    /\ state.map["a"] = "false"
    /\ state.map["b"] = "true"
    /\ io.runs = 0
    /\ ~halted

\* A snippet with an `if` that is satisfied and an `unless` whose
\* evaluation raises was skipped, and the run was halted.
C31_SkippedByRaise ==
    /\ pc = "run"
    /\ Len(stack) = 2
    /\ Top.cases[2].input.owner = "py"
    /\ Top.cases[2].input.if_ = AnyOf({"a"})
    /\ Top.cases[2].input.unless = Invalid
    /\ state.map["a"] = "true"
    /\ Top.idx = 2
    /\ Top.pc = "finish"
    /\ io.runs = 0
    /\ io.halts = 1
    /\ halted

----------------------------------------------------------------------------
(* C32: a suite the selection does not contain.                            *)

\* The suite the frame on top is about to call is not selected.
CallingUnselected ==
    Calling("suite") /\ ~contains(selection, Cur.input.key)

\* What the i-th case of frame f leaves for the list of the suite: the
\* output it returned if that differs from the one it was given, else the
\* one it was given.
FinalOutput(f, i) ==
    IF f.new_case_output_map[i].has THEN f.new_case_output_map[i].out
    ELSE f.cases[i].output

PositionOf(list, x) == CHOOSE p \in 1..Len(list) : list[p] = x

\* The output the i-th case of f was given is in `tests`, after what the
\* cases before it leave there and before what the cases after it leave.
KeptInPlace(f, i, tests) ==
    LET out == f.cases[i].output
    IN  /\ \E p \in 1..Len(tests) : tests[p] = out
        /\ \A j \in 1..Len(f.cases) :
             LET other == FinalOutput(f, j)
             IN  j /= i /\ other /= None
                   /\ (\E p \in 1..Len(tests) : tests[p] = other)
                   => (j < i <=> PositionOf(tests, other)
                                   < PositionOf(tests, out))

\* C32: a suite whose identifier the selection does not contain is not
\* executed: no nested case is built or run, the selection, the
\* conditional variables, the counters and halted are unchanged, nothing
\* is prompted or written, and the call returns the output it was given;
\* so in training, with or without purge, the list its parent builds keeps
\* that output in its place.
C32_UnselectedSuite ==
    /\ [][CallingUnselected
            => /\ Len(stack') = Len(stack)
               /\ CaseReturnedNow = Cur.output
               /\ UNCHANGED <<selection, state, counters, io, files,
                              behaviour, pc>>]_vars
    /\ [][Finishing /\ training
            => \A i \in 1..Len(Top.cases) :
                 /\ i <= Top.idx
                 /\ Top.cases[i].input.owner = "suite"
                 /\ ~contains(selection, Top.cases[i].input.key)
                 /\ Top.cases[i].output /= None
                 => KeptInPlace(Top, i,
                                train_tests(Top.output, Top.cases,
                                            Top.new_case_output_map,
                                            purging, halted))]_vars

\* A training run with purge is over that selected the root suite only:
\* the first snippet printed a new text that was recorded, the nested
\* suite never ran, and the file holds the nested suite's earlier output
\* after the new output of the first snippet.
C32_Witness ==
    /\ pc = "done"
    /\ training
    /\ purging
    /\ ~halted
    /\ ~selection.all
    /\ Len(input_doc.tests) = 3
    /\ input_doc.tests[2].owner = "suite"
    /\ behaviour[1] = 2
    /\ behaviour[SubId + 1] = Undetermined
    /\ files["root.yaml"] /= None
    /\ files["root.yaml"] /= NullDoc
    /\ Len(files["root.yaml"].tests) >= 2
    /\ files["root.yaml"].tests[1] = PyOutput(1, 2)
    /\ files["root.yaml"].tests[2]
         = SuiteOutput(SubId, <<PyOutput(SubId + 1, 1)>>)

----------------------------------------------------------------------------
(* A Selection made from targets in filesystem notation, as the command    *)
(* line gives them.                                                        *)

\* The longest target, in characters.
MaxText == 3

\* The characters of a target: "/", and one character for each suite
\* identifier and for "*".
Slash == Star - 1
TargetCharacters == {Slash, Star, RootId, SubId}

\* The segment '' that split leaves between, before or after slashes: no
\* suite identifier matches it.
EmptySegment == Slash - 1

\* The targets of at most n characters in which identifiers, one character
\* long each, are set apart by slashes.
RECURSIVE TargetTexts(_)
TargetTexts(n) ==
    IF n = 0 THEN {<<>>}
    ELSE LET shorter == TargetTexts(n - 1)
         IN  shorter
             \cup {Append(t, c) : t \in {u \in shorter : Len(u) = n - 1},
                                  c \in {Slash}}
             \cup {Append(t, c) :
                     t \in {u \in shorter :
                              /\ Len(u) = n - 1
                              /\ u /= <<>> => u[Len(u)] = Slash},
                     c \in TargetCharacters \ {Slash}}

\* target.strip('/')
RECURSIVE strip(_)
strip(text) ==
    IF text = <<>> THEN <<>>
    ELSE IF Head(text) = Slash THEN strip(Tail(text))
    ELSE IF text[Len(text)] = Slash
    THEN strip(SubSeq(text, 1, Len(text) - 1))
    ELSE text

\* text.split('/'): the empty text gives [''], and so does each place
\* where nothing stands before, between or after slashes.
RECURSIVE split(_)
split(text) ==
    IF text = <<>> THEN <<EmptySegment>>
    ELSE IF Head(text) = Slash THEN <<EmptySegment>> \o split(Tail(text))
    ELSE IF Len(text) = 1 THEN <<Head(text)>>
    ELSE <<Head(text)>> \o split(SubSeq(text, 3, Len(text)))

\* tuple(target.strip('/').split('/'))
target_tuple(text) == split(strip(text))

\* Selection(targets) with targets a list of strings.
Selection_of_strings(texts) ==
    Selection_init({target_tuple(text) : text \in texts})

InitTargets ==
    /\ training = FALSE
    /\ purging = FALSE
    /\ max_errors = 0
    /\ success_num = 0
    /\ failure_num = 0
    /\ update_num = 0
    /\ halted = FALSE
    /\ pc = "init"
    /\ stack = <<>>
    /\ prior_output = None
    /\ new_output = None
    /\ exit_status = -1
    /\ io = NoIO
    /\ input_doc = NullDoc
    /\ output_path = NoPath
    /\ files = [path \in Paths |-> None]
    /\ behaviour = [k \in 1..(SubId + MaxNested + 1) |-> Undetermined]
    /\ state = State(NoVariables)
    /\ \E t1 \in TargetTexts(MaxText), t2 \in TargetTexts(MaxText),
          n \in 0..2 :
         LET texts == IF n = 0 THEN {} ELSE IF n = 1 THEN {t1} ELSE {t1, t2}
         IN  /\ call = [op |-> "Selection", targets |-> texts]
             /\ selection = Selection_of_strings(texts)

NextTargets ==
    \/ Selection_descend
    \/ Selection_ascend

SpecTargets == InitTargets /\ [][NextTargets]_vars

\* A target given to Selection names the root suite: "/" or "".
NamesRoot == \E text \in call.targets : text \in {<<Slash>>, <<>>}

\* C33: a Selection constructed with a target that names the root suite,
\* the string "/" or the empty string, selects everything: it is
\* unrestricted, contains every identifier, and stays so after any
\* descend.
C33_RootSelectsAll ==
    [](NamesRoot => /\ selection.all
                    /\ \A id \in Suites : contains(selection, id))

\* Selection(["/"]) has been constructed: it is restricted to the one
\* pattern ('',) and contains no suite.
C33_RootSelectsNothing ==
    /\ call.targets = {<<Slash>>}
    /\ selection.path = <<>>
    /\ ~selection.all
    /\ selection.targets = {<<EmptySegment>>}
    /\ \A id \in Suites : ~contains(selection, id)

\* A Selection constructed with no target at all is unrestricted, contains
\* every identifier, and stays so after any descend.
C33_NoTargetSelectsAll ==
    [](call.targets = {} => /\ selection.all
                            /\ \A id \in Suites : contains(selection, id))

\* Selection([]) has descended twice.
C33_Descended ==
    /\ call.targets = {}
    /\ Len(selection.path) = 2
    /\ selection.all

----------------------------------------------------------------------------
(* C34: scalars that begin with a substitution (SpecRecord).               *)

\* The whole of the text is ${name} or ${name:default}.
WholeToken(text) ==
    LET match == substitute_re(text)
    IN  /\ match.matched
        /\ text = IF match.given
                  THEN WithDefault(match.name, match.default)
                  ELSE Plain(match.name)

\* The text begins with ${name} or ${name:default} and goes on after the
\* closing brace.
BeginsWithToken(text) == substitute_re(text).matched /\ ~WholeToken(text)

\* C34: substitution applies only to a scalar whose entire text is ${name}
\* or ${name:default}; a scalar that begins with such a token and has
\* further text after the closing brace is loaded as its literal text, not
\* replaced by the value of the variable.
C34_WholeScalarOnly ==
    call.op = "scalar" /\ ~call.tagged /\ ~WholeToken(call.text)
      => call.result = Substituted("text", "", call.text)

\* ${a}a was loaded with a table that binds a: the value of the table,
\* the text after the brace lost.
C34_TrailingTextDropped ==
    /\ call.op = "scalar"
    /\ ~call.tagged
    /\ call.text = <<"$", "{", "a", "}", "a">>
    /\ BeginsWithToken(call.text)
    /\ call.substitutes[<<"a">>] = "v"
    /\ call.result = Substituted("table", "v", <<>>)

\* A plain scalar that substitute_re does not match at its start is loaded
\* as its literal text.
C34_UnmatchedIsLiteral ==
    call.op = "scalar" /\ ~call.tagged /\ ~substitute_re(call.text).matched
      => call.result = Substituted("text", "", call.text)

----------------------------------------------------------------------------
(* C35: purge in a run that is halted (SpecSuite).                         *)

\* `out` is an entry of the list.
Holds(list, out) == \E k \in 1..Len(list) : list[k] = out

\* C35: when the run is halted as a suite ends its training loop, the
\* suite does not purge even if purge was requested: the list it builds
\* still holds the prior outputs of the cases that the halt kept from
\* running and every prior output that no case was paired with.
C35_HaltedKeepsPrior ==
    [][RootFinishing /\ purging /\ halted
        => /\ \A i \in 1..Len(Top.cases) :
                i > Top.idx /\ Top.cases[i].output /= None
                  => Holds(TestsOf(ReturnedNow), Top.cases[i].output)
           /\ \A j \in Unmatched(Top) :
                Holds(TestsOf(ReturnedNow), Top.output.tests[j + 1])]_vars

\* A purging run over prior outputs 1, 2, 3 and cases 3, 1 was halted
\* after case 3 recorded a new output: the suite returned the prior list
\* with the entry of case 3 replaced, the entry of case 1, which never
\* ran, and the entry 2, which has no case, both kept.
C35_Witness ==
    /\ RootReturned
    /\ purging
    /\ halted
    /\ io.starts = 2
    /\ OutputKeys(prior_output) = <<1, 2, 3>>
    /\ InputKeys(input_doc) = <<3, 1>>
    /\ RootOutput = SuiteOutput(RootId, <<CaseOutput(1, 1), CaseOutput(2, 1),
                                          CaseOutput(3, 2)>>)

----------------------------------------------------------------------------
(* C36: the exit status of a run that was halted.                          *)

\* C36: whenever a run ends with halted true, by the failure threshold, by
\* the operator's reply, or because the evaluation of an `if` or `unless`
\* expression raised, the exit status that Control.__call__ returns is not
\* zero.
C36_HaltedNotSuccess ==
    pc = "done" /\ halted => exit_status /= 0

\* A run is over that was halted because a condition raised, and in which
\* no case failed: it returned 0.
C36_HaltedExitsZero ==
    /\ pc = "done"
    /\ halted
    /\ io.halts = 1
    /\ failure_num = 0
    /\ exit_status = 0

\* A run that is halted by the failure threshold or by the operator's
\* reply to a prompt has counted a failure, and returns 1.
C36_HaltedByFailure ==
    /\ [][~halted /\ halted' /\ ~skip_raises(Cur.input)
            => failure_num' = failure_num + 1]_vars
    /\ [](pc = "done" /\ failure_num > 0 => exit_status = 1)

\* A training run is over that the operator halted at the prompt of a
\* changed output: it returned 1.
C36_OperatorHalted ==
    /\ pc = "done"
    /\ training
    /\ halted
    /\ max_errors = 0
    /\ io.halts = 1
    /\ failure_num = 1
    /\ exit_status = 1

----------------------------------------------------------------------------
(* C37: the failures counted against --max-errors.                         *)

\* C37: with max_errors = N > 0, and cases that report at most one failure
\* for each execution, failure_num never exceeds N at any point of a run,
\* however suites and includes are nested and whatever the operator
\* replies.
C37_FailuresBounded ==
    max_errors > 0 => failure_num <= max_errors

\* A training run with max_errors = 2 is over in which the operator went
\* on after the first failure and the snippet of a nested suite or of an
\* included document was the second: the run was halted there with
\* failure_num = 2.
C37_Witness ==
    /\ pc = "done"
    /\ training
    /\ max_errors = 2
    /\ failure_num = 2
    /\ halted
    /\ behaviour[1] = Fails
    /\ behaviour[SubId + 1] = Fails
    /\ io.runs = 2
    /\ Len(input_doc.tests) = 3

----------------------------------------------------------------------------
(* C38: the entry of a nested suite that has an output file of its own.    *)

\* The list holds an output of the nested suite.
HoldsSuite(list) ==
    \E k \in 1..Len(list) :
       list[k].owner = "suite" /\ list[k].key = SubId

\* The root suite of a training run builds its output after the nested
\* suite has saved its results to its own file.
AfterNestedSaved ==
    /\ RootFinishing
    /\ training
    /\ io.dumps > 0
    /\ \E i \in 1..Top.idx :
         /\ Top.cases[i].input.owner = "suite"
         /\ Top.cases[i].input.output /= NoPath

\* C38: after a training run in which a nested suite that names its own
\* output file has its results saved to that file, the list its parent
\* builds holds no entry for the nested suite, also when the parent's
\* prior document still held an inline output for it and purge is not
\* requested.
C38_NoEntryForFiledSuite ==
    [][AfterNestedSaved => ~HoldsSuite(TestsOf(ReturnedNow))]_vars

\* A training run without purge is over: the nested suite wrote its
\* output to its own file, and the root output still holds the inline
\* output that the prior document had for it.
C38_StaleInlineEntry ==
    /\ pc = "done"
    /\ training
    /\ ~purging
    /\ ~halted
    /\ io.dumps > 0
    /\ SubOf(input_doc) /= None
    /\ SubOf(input_doc).output = "sub.yaml"
    /\ files["sub.yaml"] = SuiteOutput(SubId, <<PyOutput(SubId + 1, 2)>>)
    /\ HoldsSuite(TestsOf(new_output))
    /\ HoldsSuite(TestsOf(prior_output))

\* With purge, in a run that is not halted, or with a prior document that
\* holds no inline output for the nested suite, the list holds no entry
\* for it.
C38_NoEntryElsewhere ==
    [][/\ AfterNestedSaved
       /\ (purging /\ ~halted) \/ ~HoldsSuite(TestsOf(Top.output))
       => ~HoldsSuite(TestsOf(ReturnedNow))]_vars

\* A purging training run is over: the nested suite wrote its output to
\* its own file and the root output no longer holds the inline output of
\* the prior document.
C38_PurgedInlineEntry ==
    /\ pc = "done"
    /\ training
    /\ purging
    /\ ~halted
    /\ io.dumps > 0
    /\ SubOf(input_doc) /= None
    /\ SubOf(input_doc).output = "sub.yaml"
    /\ files["sub.yaml"] = SuiteOutput(SubId, <<PyOutput(SubId + 1, 2)>>)
    /\ new_output /= None
    /\ ~HoldsSuite(TestsOf(new_output))
    /\ HoldsSuite(TestsOf(prior_output))

----------------------------------------------------------------------------
(* A mapping loaded where a record is expected: the type is detected and   *)
(* the mapping is handed to its __load__.                                  *)

\* "Generate a record object": ValueError becomes ConstructorError with
\* the same message; any other exception is not caught.
generate_record(S, mapping) ==
    LET outcome == load(S, mapping)
    IN  IF outcome.raised /\ outcome.exc = "ValueError"
        THEN Raised("ConstructorError", outcome.what, outcome.key)
        ELSE outcome

\* "cannot find a test type with field(s) ...", "expected a test record"
\* for a mapping with no key.
NotDetected(keys) ==
    Raised("ConstructorError",
           IF keys = {} THEN "expected a test record"
           ELSE "cannot find a test type", "")

\* construct_yaml_map trying, one after another, every type that
\* recognizes the keys until one loads the mapping.
construct_yaml_map_backtracking(record_types, mapping) ==
    LET keys == DOMAIN mapping
        hits == {i \in 1..Len(record_types) :
                   recognizes(record_types[i], keys)}
        good == {i \in hits : ~load(record_types[i], mapping).raised}
    IN  IF hits = {} THEN NotDetected(keys)
        ELSE IF good = {}
        THEN generate_record(detected_record_type(record_types, keys),
                             mapping)
        ELSE generate_record(
                 record_types[CHOOSE i \in good : \A j \in good : i <= j],
                 mapping)

\* TestLoader.construct_yaml_map for a mapping whose values are already
\* constructed: the type is detected once, and its __load__ decides.
construct_yaml_map(record_types, mapping) ==
    LET keys == DOMAIN mapping
        S == detected_record_type(record_types, keys)
    IN  IF S = NoSchema THEN NotDetected(keys)
        ELSE generate_record(S, mapping)

\* The loader meets a mapping where it expects a record, in an input or in
\* an output document: the mappings tried are those tried for __load__ of
\* the types of the list.
TestLoader_construct_record ==
    /\ Idle
    /\ \E record_types \in {input_types, output_types} :
         \E i \in 1..Len(record_types) :
            \E mapping \in Mappings(record_types[i]) :
               Calls([op |-> "construct", record_types |-> record_types,
                      mapping |-> mapping,
                      result |-> construct_yaml_map(record_types, mapping)])

NextLoader == TestLoader_construct_record

SpecLoader == InitRecord /\ [][NextLoader]_vars

\* C39: type detection does not backtrack: when the type registered
\* earliest among those that recognize the keys of a mapping fails to load
\* it (unknown, missing or ill-typed field), loading fails with the error
\* of that type, and no type registered later that recognizes the same
\* keys is tried.
C39_NoBacktracking ==
    call.op = "construct" =>
        LET hits == Recognizing(call.record_types, DOMAIN call.mapping)
        IN  \A i \in hits :
               LET outcome == load(call.record_types[i], call.mapping)
               IN  (\A j \in hits : i <= j) /\ outcome.raised
                     => /\ call.result.raised
                        /\ call.result.what = outcome.what
                        /\ call.result.key = outcome.key

\* The mapping {coverage: a-b, include: [...]} was loaded from an input
\* document: IncludeCase.Input, registered first, recognizes the keys and
\* rejects the list `include` holds; CoverageCase.Input recognizes them
\* too and would have loaded the mapping, and loading failed.
C39_Witness ==
    /\ call.op = "construct"
    /\ call.record_types = input_types
    /\ call.mapping = [key \in {"coverage", "include"} |->
                         IF key = "coverage" THEN StrV("a-b")
                         ELSE ListV("str")]
    /\ Cardinality(Recognizing(input_types, DOMAIN call.mapping)) = 2
    /\ ~load(InputOf("CoverageCase"), call.mapping).raised
    /\ call.result = Raised("ConstructorError", "invalid field", "include")

----------------------------------------------------------------------------
(* C40: prior outputs that are equal (SpecSuite).                          *)

\* The 0-based positions of the prior outputs with the key of the i-th
\* case of f, and how many cases up to the i-th have that key.
EntriesLike(f, i) ==
    {j \in 0..(Len(TestsOf(f.output)) - 1) :
        f.output.tests[j + 1].key = f.cases[i].input.key}

CasesLike(f, i) ==
    Cardinality({h \in 1..i : f.cases[h].input.key = f.cases[i].input.key})

\* The case produced an output that differs from the one it was given.
Rewrote(f, i) ==
    f.new_case_output_map[i].has /\ f.new_case_output_map[i].out /= None

\* C40: when the prior list of a suite holds several equal outputs that
\* are matched to different cases, the k-th such case is matched to the
\* k-th such entry, and reconciliation without purge writes the new output
\* of a changed case at the position of the entry that case was matched
\* to, never at that of another, equal entry (stated for lists that gain
\* no entry, where positions are those of the prior list).
C40_EqualOutputs ==
    [][RootFinishing /\ ~(purging /\ ~halted)
        => LET f == Top
               prior == TestsOf(f.output)
               list == TestsOf(ReturnedNow)
           IN  /\ \A i \in 1..Len(f.cases) :
                    f.cases[i].ref =
                       IF CasesLike(f, i) <= Cardinality(EntriesLike(f, i))
                       THEN Nth(EntriesLike(f, i), CasesLike(f, i))
                       ELSE -1
               /\ (\A i \in 1..Len(f.cases) :
                      Rewrote(f, i) => f.cases[i].ref >= 0)
                   => /\ Len(list) = Len(prior)
                      /\ \A j \in 0..(Len(prior) - 1) :
                           list[j + 1] =
                              IF \E i \in 1..Len(f.cases) :
                                    f.cases[i].ref = j /\ Rewrote(f, i)
                              THEN CaseOutput(prior[j + 1].key, 2)
                              ELSE prior[j + 1]]_vars

\* A run without purge over two equal prior outputs and two cases that
\* both match them, of which only the second produced a new output: the
\* suite returned the first entry as it was and the new output in the
\* place of the second.
C40_Witness ==
    /\ RootReturned
    /\ ~purging
    /\ ~halted
    /\ OutputKeys(prior_output) = <<1, 1>>
    /\ InputKeys(input_doc) = <<1, 1>>
    /\ RootOutput = SuiteOutput(RootId, <<CaseOutput(1, 1),
                                          CaseOutput(1, 2)>>)

====
